---- MODULE Spec2Model ----
(***************************************************************************)
(* Model of ai-forge: the configuration manager (core/config_manager.py),  *)
(* the prompt library (core/prompts_manager.py), and the streaming chat    *)
(* and model-list cache of the Ollama provider                             *)
(* (core/ai_providers/ollama_provider.py).                                 *)
(*                                                                         *)
(* ConfigSpec  : one ConfigManager instance, its file and one backup file. *)
(* StreamSpec  : one run of OllamaProvider.chat_stream against an upstream *)
(*               whose behaviour is chosen in the initial state.           *)
(* PromptSpec  : one PromptsManager instance (core/prompts_manager.py),    *)
(*               its file and one export / import file.                    *)
(* CacheSpec   : the model-list cache of one OllamaProvider, with calls of *)
(*               get_available_models suspended on the daemon.             *)
(* RegistrySpec: one ProviderFactory                                       *)
(*               (core/ai_providers/provider_factory.py).                  *)
(* AppSpec     : the routes of one BaseAIApp (core/base_app.py) over its   *)
(*               three managers.                                           *)
(* ValidateSpec: ConfigManager.validate_config on the documents a file can *)
(*               hold.                                                     *)
(* SharedSpec  : two ConfigManager instances on one file.                  *)
(***************************************************************************)
EXTENDS Integers, Sequences, FiniteSets, TLC

VARIABLES
    defaults,     \* ConfigManager.defaults
    config,       \* ConfigManager._config, the live document
    file,         \* the content of config_file on disk
    backup_file,  \* the content of the backup path on disk
    now,          \* the clock read by datetime.now()
    cpc,          \* "new" before __init__ has run, "live" after
    last,         \* the last call on the manager and what it returned
    upstream,     \* what the Ollama daemon does for this chat_stream call
    spc,          \* position of the chat_stream generator
    pos,          \* number of upstream lines the generator has consumed
    out,          \* the envelopes the generator has yielded so far
    prompts,      \* PromptsManager._prompts, in insertion order
    prompts_file, \* the content of prompts_file on disk
    export_file,  \* the content of the export / import path on disk
    next_id,      \* number of ids uuid4 has minted
    plast,        \* the last call on the prompts manager and its outcome
    models_cache,     \* OllamaProvider._models_cache
    last_cache_time,  \* OllamaProvider._last_cache_time
    ctime,            \* the clock read by time.time()
    ticks,            \* number of times the model has advanced that clock
    server_models,    \* the models the Ollama daemon has
    pending,          \* the get_available_models calls waiting on the daemon
    wrote,            \* the fetch that last wrote the cache, if still valid
    clast,            \* the last provider call that returned, and its result
    providers,        \* ProviderFactory._providers: its keys, in insertion order
    lapsed,           \* the names whose latest probe did not return true
    rlast,            \* the last call on the provider factory and its outcome
    alast,            \* the last HTTP request to the application and its answer
    shared_file,      \* the bytes of a config file that two processes share
    managers,         \* the ConfigManager of each of the two processes
    writer            \* the process that completed the latest rewrite, 0 if none

configVars == <<defaults, config, file, backup_file, now, cpc, last>>
streamVars == <<upstream, spc, pos, out>>
promptVars == <<prompts, prompts_file, export_file, next_id, plast>>
cacheVars ==
    <<models_cache, last_cache_time, ctime, ticks, server_models, pending, wrote, clast>>
registryVars == <<providers, lapsed, rlast>>
appVars == <<alast>>
sharedVars == <<shared_file, managers, writer>>
extraVars == <<registryVars, appVars, sharedVars>>
vars ==
    <<defaults, config, file, backup_file, now, cpc, last, upstream, spc, pos, out,
      prompts, prompts_file, export_file, next_id, plast,
      models_cache, last_cache_time, ctime, ticks, server_models, pending, wrote, clast,
      providers, lapsed, rlast, alast, shared_file, managers, writer>>

(***************************************************************************)
(* Bounds of the model.                                                    *)
(***************************************************************************)
MaxTime == 2          \* saves per behaviour (each save reads the clock once)
MaxPayloadKeys == 2   \* keys in one update payload / one reset key list
MaxLines == 3         \* upstream lines of one streamed answer

(***************************************************************************)
(* JSON values and documents.  A document is a function from a finite set  *)
(* of keys to values.  Scalars are wrapped in a record so that they can be *)
(* compared with the nested _metadata object.                              *)
(***************************************************************************)
Val(s) == [json |-> s]
None == [json |-> "None"]
EmptyDoc == [k \in {} |-> None]

Keys == {"temperature", "default_model", "_metadata", "_hidden"}

\* str.startswith('_') on the keys of the model
StartsWithUnderscore(k) == k \in {"_metadata", "_hidden"}

\* the "_metadata" object written by _save_config at clock value t
Metadata(t) == [last_updated |-> t, version |-> "1.0"]

\* {**a, **b}: b's entries win
Merge(a, b) ==
    [k \in DOMAIN a \cup DOMAIN b |-> IF k \in DOMAIN b THEN b[k] ELSE a[k]]

Restrict(d, ks) == [k \in DOMAIN d \cap ks |-> d[k]]

\* the default value an application gives to each key (spec scenario values)
DefaultValue(k) ==
    CASE k = "temperature"   -> Val("0.1")
      [] k = "default_model" -> Val("llama3.2")
      [] OTHER               -> Val("d_hidden")

\* values a caller passes to update / set
CallerValues == {Val("0.5")}

\* files on disk
AbsentFile == [state |-> "absent", doc |-> EmptyDoc]
CorruptFile == [state |-> "corrupt", doc |-> EmptyDoc]
JsonFile(d) == [state |-> "json", doc |-> d]

\* a value found in a file that an earlier run of the application wrote
StoredValue(k) ==
    IF k = "_metadata" THEN Metadata(0) ELSE Val("stored")

DefaultsChoices == {[k \in ks |-> DefaultValue(k)] : ks \in SUBSET (Keys \ {"_metadata"})}
\* the files an earlier run can have left: _save_config always writes _metadata
StoredDocs ==
    {[k \in ks \cup {"_metadata"} |-> StoredValue(k)] : ks \in SUBSET Keys}
Payloads ==
    {p \in UNION {[ks -> CallerValues] : ks \in SUBSET Keys} :
        Cardinality(DOMAIN p) <= MaxPayloadKeys}
KeyLists == {ks \in SUBSET Keys : Cardinality(ks) <= MaxPayloadKeys}

(***************************************************************************)
(* ConfigManager: pure parts.                                              *)
(***************************************************************************)

\* faulty variant of SaveConfig: {"_metadata": {...}, **_config}, the live document's
\* own _metadata entry wins over the fresh one
SaveConfig_StaleMetadata(c, t) ==
    [state |-> "json", doc |-> Merge([k \in {"_metadata"} |-> Metadata(t)], c)]

\* _save_config: {**_config, "_metadata": {...now...}} replaces the file
SaveConfig(c, t) == JsonFile(Merge(c, [k \in {"_metadata"} |-> Metadata(t)]))

\* faulty variant of LoadConfig: no back-fill of the missing default keys
LoadConfig_NoBackfill(f, d, t) ==
    IF f.state = "json"
    THEN [config |-> f.doc, file |-> f, now |-> t]
    ELSE [config |-> d, file |-> SaveConfig(d, t + 1), now |-> t + 1]

\* faulty variant of LoadConfig: the defaults overwrite the keys of the file
LoadConfig_DefaultsWin(f, d, t) ==
    IF f.state = "json"
    THEN [config |-> Merge(f.doc, d), file |-> f, now |-> t]
    ELSE [config |-> d, file |-> SaveConfig(d, t + 1), now |-> t + 1]

\* _load_config: the live document, the file and the clock after loading
\* from file f with defaults d at clock t
LoadConfig(f, d, t) ==
    IF f.state = "json"
    THEN [config |-> Merge(d, f.doc), file |-> f, now |-> t]
    ELSE [config |-> d, file |-> SaveConfig(d, t + 1), now |-> t + 1]

\* get(): with no key, the snapshot without the keys starting with '_'
GetAll(c) == Restrict(c, {k \in DOMAIN c : ~StartsWithUnderscore(k)})

\* get(key, default)
GetKey(c, k, dflt) == IF k \in DOMAIN c THEN c[k] ELSE dflt

\* update: the payload without the keys starting with '_'
FilteredUpdates(updates) ==
    Restrict(updates, {k \in DOMAIN updates : ~StartsWithUnderscore(k)})

\* faulty variant of UpdatedConfig: the payload replaces the live document
UpdatedConfig_Replace(c, updates) == FilteredUpdates(updates)

\* update: the live document after _config.update(filtered_updates)
UpdatedConfig(c, updates) == Merge(c, FilteredUpdates(updates))

\* set: whether the key is accepted
SetAccepts(k) == ~StartsWithUnderscore(k)

\* reset(keys): the live document after resetting the listed keys
ResetKeys(c, d, ks) ==
    [k \in DOMAIN c \cup (ks \cap DOMAIN d) |->
        IF k \in ks /\ k \in DOMAIN d THEN d[k] ELSE c[k]]

\* reset(): the live document after a full reset
ResetAllConfig(d) == d

Call(op, arg, ret, raised) == [op |-> op, arg |-> arg, ret |-> ret, raised |-> raised]

(***************************************************************************)
(* ConfigManager: operations.                                              *)
(***************************************************************************)
\* no PromptsManager in use
\* self._cache_timeout = 300 (seconds)
CacheTimeout == 300

\* time.time() when the provider is constructed: later than the epoch by more
\* than the cache timeout
StartTime == CacheTimeout + 1

\* _models_cache: None, or a list of model names
NoCache == [set |-> FALSE, models |-> <<>>]
Cached(models) == [set |-> TRUE, models |-> models]

\* no fetch has written the cache, or what it wrote has been invalidated
NoFetch == [valid |-> FALSE, start |-> 0, models |-> <<>>, stale |-> FALSE]

\* OllamaProvider.__init__ has run and nothing has been called
CacheIdle ==
    /\ models_cache = NoCache
    /\ last_cache_time = 0
    /\ ctime = StartTime
    /\ ticks = 0
    /\ server_models = <<>>
    /\ pending = <<>>
    /\ wrote = NoFetch
    /\ clast = Call("none", None, None, FALSE)

\* no ProviderFactory has been constructed
RegistryIdle ==
    /\ providers = <<>>
    /\ lapsed = {}
    /\ rlast = Call("none", None, None, FALSE)

Response(route, arg, status, body) ==
    [route |-> route, arg |-> arg, status |-> status, body |-> body]

\* no request has been served
AppIdle == alast = Response("none", None, 0, None)

\* no file is shared
SharedIdle ==
    /\ shared_file = [state |-> "absent", doc |-> EmptyDoc, size |-> 0]
    /\ managers = <<>>
    /\ writer = 0

ExtraIdle ==
    /\ RegistryIdle
    /\ AppIdle
    /\ SharedIdle

PromptIdle ==
    /\ prompts = <<>>
    /\ prompts_file = <<>>
    /\ export_file = [exists |-> FALSE, prompts |-> <<>>]
    /\ next_id = 0
    /\ plast = Call("none", None, None, FALSE)

StreamIdle ==
    /\ upstream = [open_fails |-> FALSE, status |-> 200, lines |-> <<>>, ends |-> "eof"]
    /\ spc = "unused"
    /\ pos = 0
    /\ out = <<>>

ConfigInit ==
    /\ defaults \in DefaultsChoices
    /\ file \in {AbsentFile, CorruptFile} \cup {JsonFile(d) : d \in StoredDocs}
    /\ backup_file \in {AbsentFile, CorruptFile}
    /\ config = EmptyDoc
    /\ now = 0
    /\ cpc = "new"
    /\ last = Call("none", None, None, FALSE)
    /\ StreamIdle
    /\ PromptIdle
    /\ CacheIdle
    /\ ExtraIdle

\* ConfigManager.__init__
Construct ==
    /\ cpc = "new"
    /\ LoadConfig(file, defaults, now).now <= MaxTime
    /\ LET r == LoadConfig(file, defaults, now) IN
        /\ config' = r.config
        /\ file' = r.file
        /\ now' = r.now
    /\ cpc' = "live"
    /\ last' = Call("init", file, None, FALSE)
    /\ UNCHANGED <<defaults, backup_file>>
    /\ UNCHANGED streamVars
    /\ UNCHANGED promptVars
    /\ UNCHANGED cacheVars
    /\ UNCHANGED extraVars

\* ConfigManager.get(key) and get()
Get ==
    /\ cpc = "live"
    /\ \/ \E k \in Keys : last' = Call("get", k, GetKey(config, k, None), FALSE)
       \/ last' = Call("get_all", None, GetAll(config), FALSE)
    /\ UNCHANGED <<defaults, config, file, backup_file, now, cpc>>
    /\ UNCHANGED streamVars
    /\ UNCHANGED promptVars
    /\ UNCHANGED cacheVars
    /\ UNCHANGED extraVars

\* ConfigManager.update(updates)
Update ==
    /\ cpc = "live"
    /\ now < MaxTime
    /\ \E p \in Payloads :
        LET c == UpdatedConfig(config, p) IN
        /\ config' = c
        /\ file' = SaveConfig(c, now + 1)
        /\ last' = Call("update", p, GetAll(c), FALSE)
    /\ now' = now + 1
    /\ UNCHANGED <<defaults, backup_file, cpc>>
    /\ UNCHANGED streamVars
    /\ UNCHANGED promptVars
    /\ UNCHANGED cacheVars
    /\ UNCHANGED extraVars

\* ConfigManager.set(key, value)
Set ==
    /\ cpc = "live"
    /\ \E k \in Keys, v \in CallerValues :
        /\ last' = Call("set", [key |-> k, value |-> v], v, FALSE)
        /\ IF SetAccepts(k)
           THEN /\ now < MaxTime
                /\ config' = Merge(config, [x \in {k} |-> v])
                /\ file' = SaveConfig(config', now + 1)
                /\ now' = now + 1
           ELSE UNCHANGED <<config, file, now>>
    /\ UNCHANGED <<defaults, backup_file, cpc>>
    /\ UNCHANGED streamVars
    /\ UNCHANGED promptVars
    /\ UNCHANGED cacheVars
    /\ UNCHANGED extraVars

\* ConfigManager.reset(keys) and reset()
Reset ==
    /\ cpc = "live"
    /\ now < MaxTime
    /\ \/ \E ks \in KeyLists :
            /\ config' = ResetKeys(config, defaults, ks)
            /\ last' = Call("reset", ks, None, FALSE)
       \/ /\ config' = ResetAllConfig(defaults)
          /\ last' = Call("reset_all", None, None, FALSE)
    /\ file' = SaveConfig(config', now + 1)
    /\ now' = now + 1
    /\ UNCHANGED <<defaults, backup_file, cpc>>
    /\ UNCHANGED streamVars
    /\ UNCHANGED promptVars
    /\ UNCHANGED cacheVars
    /\ UNCHANGED extraVars

\* ConfigManager.backup(backup_path): shutil.copy2(config_file, backup_path)
Backup ==
    /\ cpc = "live"
    /\ IF file.state = "absent"
       THEN /\ last' = Call("backup", None, None, TRUE)
            /\ UNCHANGED backup_file
       ELSE /\ backup_file' = file
            /\ last' = Call("backup", None, None, FALSE)
    /\ UNCHANGED <<defaults, config, file, now, cpc>>
    /\ UNCHANGED streamVars
    /\ UNCHANGED promptVars
    /\ UNCHANGED cacheVars
    /\ UNCHANGED extraVars

\* ConfigManager.restore(backup_path): copy the backup over the file, reload
Restore ==
    /\ cpc = "live"
    /\ IF backup_file.state = "absent"
       THEN /\ last' = Call("restore", None, None, TRUE)
            /\ UNCHANGED <<config, file, now>>
       ELSE LET r == LoadConfig(backup_file, defaults, now) IN
            /\ r.now <= MaxTime
            /\ config' = r.config
            /\ file' = r.file
            /\ now' = r.now
            /\ last' = Call("restore", None, None, FALSE)
    /\ UNCHANGED <<defaults, backup_file, cpc>>
    /\ UNCHANGED streamVars
    /\ UNCHANGED promptVars
    /\ UNCHANGED cacheVars
    /\ UNCHANGED extraVars

\* the process ends; the next one constructs a manager on the same file
Restart ==
    /\ cpc = "live"
    /\ cpc' = "new"
    /\ config' = EmptyDoc
    /\ last' = Call("none", None, None, FALSE)
    /\ UNCHANGED <<defaults, file, backup_file, now>>
    /\ UNCHANGED streamVars
    /\ UNCHANGED promptVars
    /\ UNCHANGED cacheVars
    /\ UNCHANGED extraVars

ConfigNext ==
    \/ Construct
    \/ Get
    \/ Update
    \/ Set
    \/ Reset
    \/ Backup
    \/ Restore
    \/ Restart

ConfigSpec == ConfigInit /\ [][ConfigNext]_vars

(***************************************************************************)
(* Claims about the ConfigManager (checked under ConfigSpec).              *)
(***************************************************************************)
ScenarioDefaults ==
    [k \in {"temperature", "default_model"} |-> DefaultValue(k)]
TemperaturePayload == [k \in {"temperature"} |-> Val("0.5")]
WithoutMetadata(d) == Restrict(d, DOMAIN d \ {"_metadata"})
MutatingOps == {"update", "set", "reset", "reset_all"}

\* C1: update is a merge, not a replace: every key of the live document
\* that does not start with '_' and is absent from the payload keeps its
\* value across update, and get(key) still returns it.
C1_UpdateIsMerge ==
    [][ last'.op = "update" =>
          \A k \in DOMAIN config :
              (~StartsWithUnderscore(k) /\ k \notin DOMAIN last'.arg) =>
                  /\ k \in DOMAIN config'
                  /\ config'[k] = config[k]
                  /\ GetKey(config', k, None) = config[k]
                  /\ k \in DOMAIN last'.ret
                  /\ last'.ret[k] = config[k] ]_vars

\* C1 witness: an update of temperature alone has run on a document that
\* holds default_model, which is still there with its default value.
C1_Witness ==
    /\ last.op = "update"
    /\ last.arg = TemperaturePayload
    /\ "default_model" \in DOMAIN config
    /\ config["default_model"] = Val("llama3.2")
    /\ config["temperature"] = Val("0.5")

\* C6: every key of the defaults is present in the live document in every
\* state after construction, whatever update, set, reset and restore did.
C6_DefaultKeysPresent ==
    cpc = "live" => DOMAIN defaults \subseteq DOMAIN config

\* C6 witness: a restore has loaded a file that lacks a default key.
C6_Witness ==
    /\ last.op = "restore"
    /\ ~last.raised
    /\ file.state = "json"
    /\ "temperature" \in DOMAIN defaults
    /\ "temperature" \notin DOMAIN file.doc
    /\ "temperature" \in DOMAIN config

\* C7 (as claimed): update, set and reset never add a key starting with
\* '_' to the live document, never change the value of one, and never raise.
C7_ReservedKeysNeverSet ==
    [][ last'.op \in MutatingOps =>
          /\ ~last'.raised
          /\ \A k \in DOMAIN config' :
                StartsWithUnderscore(k) =>
                    (k \in DOMAIN config /\ config'[k] = config[k]) ]_vars

\* C8 (as claimed): no read or update view shows the _metadata entry:
\* get(key) never returns it, and the mappings returned by get() and by
\* update do not contain it.
C8_MetadataNeverExposed ==
    /\ (last.op = "get" /\ last.arg = "_metadata") => last.ret = None
    /\ last.op \in {"get_all", "update"} => "_metadata" \notin DOMAIN last.ret

\* C9: construction.  File absent or unparsable: the live document is the
\* defaults and the file is written at once.  File present: the file's keys
\* keep the file's values and exactly the missing default keys are added
\* with their default values.  Scenario: defaults {temperature: 0.1,
\* default_model: llama3.2}, no file: get() is exactly the defaults, and the
\* update {temperature: 0.5} that follows gives temperature 0.5 and leaves
\* default_model at llama3.2.
C9_Construction ==
    [][ /\ last'.op = "init" =>
            IF last'.arg.state # "json"
            THEN /\ config' = defaults
                 /\ file'.state = "json"
                 /\ WithoutMetadata(file'.doc) = WithoutMetadata(defaults)
                 /\ "_metadata" \in DOMAIN file'.doc
                 /\ (defaults = ScenarioDefaults => GetAll(config') = ScenarioDefaults)
            ELSE /\ DOMAIN config' = DOMAIN last'.arg.doc \cup DOMAIN defaults
                 /\ \A k \in DOMAIN last'.arg.doc : config'[k] = last'.arg.doc[k]
                 /\ \A k \in DOMAIN defaults \ DOMAIN last'.arg.doc :
                        config'[k] = defaults[k]
                 /\ file' = last'.arg
        /\ ( /\ last.op = "init"
             /\ last.arg.state = "absent"
             /\ defaults = ScenarioDefaults
             /\ last'.op = "update"
             /\ last'.arg = TemperaturePayload ) =>
                /\ GetKey(config', "temperature", None) = Val("0.5")
                /\ GetKey(config', "default_model", None) = Val("llama3.2") ]_vars

\* C9 witness: a manager was constructed on a file that holds temperature
\* but not default_model, with the scenario's defaults.
C9_Witness ==
    /\ last.op = "init"
    /\ last.arg.state = "json"
    /\ defaults = ScenarioDefaults
    /\ "temperature" \in DOMAIN last.arg.doc
    /\ "default_model" \notin DOMAIN last.arg.doc
    /\ config["temperature"] = Val("stored")
    /\ config["default_model"] = Val("llama3.2")

\* the file holds exactly the live document's keys other than _metadata,
\* with their values, plus a _metadata entry
PersistedMatchesLive ==
    /\ file.state = "json"
    /\ "_metadata" \in DOMAIN file.doc
    /\ WithoutMetadata(file.doc) = WithoutMetadata(config)

\* a new manager on the same file with the same defaults sees the same get()
ReloadGivesSameSnapshot ==
    GetAll(LoadConfig(file, defaults, now).config) = GetAll(config)

\* update, set of a non-reserved key, reset
IsMutatingCall ==
    \/ last.op \in {"update", "reset", "reset_all"}
    \/ last.op = "set" /\ ~StartsWithUnderscore(last.arg.key)

\* C10 (as claimed): after construction and after every mutating call the
\* file holds exactly the live document's non-metadata entries plus
\* _metadata, and a new manager on it returns the same get() snapshot.
C10_PersistedAfterConstructionAndMutation ==
    (last.op = "init" \/ IsMutatingCall) =>
        /\ PersistedMatchesLive
        /\ ReloadGivesSameSnapshot

\* C10 (amended): after every mutating call, and after a construction that
\* found the file absent or unparsable, the file holds exactly the live
\* document's entries other than _metadata plus a _metadata entry stamped
\* with the time of that save; a construction that loads an existing file
\* leaves the file as it was; in every state after construction a new
\* manager on the file with the same defaults returns the same get().
C10_PersistedAfterMutation ==
    /\ (IsMutatingCall \/ (last.op = "init" /\ last.arg.state # "json")) =>
            /\ PersistedMatchesLive
            /\ file.doc["_metadata"] = Metadata(now)
    /\ (last.op = "init" /\ last.arg.state = "json") => file = last.arg
    /\ cpc = "live" => ReloadGivesSameSnapshot

\* C10 witness: a reset has rewritten the file of a manager whose live
\* document holds a _metadata entry older than the one just written.
C10_Witness ==
    /\ last.op = "reset"
    /\ "_metadata" \in DOMAIN config
    /\ config["_metadata"] = Metadata(0)
    /\ file.doc["_metadata"] = Metadata(now)
    /\ now > 0

(***************************************************************************)
(* OllamaProvider.chat_stream: the upstream and the generator.             *)
(***************************************************************************)

\* status codes the daemon answers POST /api/generate with
Statuses == {200, 204, 404, 500}

\* one line of the answer's body, as aiter_lines delivers it
EmptyLine == [kind |-> "empty", has_response |-> FALSE, response |-> "", done |-> "absent"]
MalformedLine == [kind |-> "malformed", has_response |-> FALSE, response |-> "", done |-> "absent"]
\* a line that parses as JSON but not to an object (a number, a list, ...)
NonObjectLine == [kind |-> "nonobject", has_response |-> FALSE, response |-> "", done |-> "absent"]
ResponseObject(text, d) == [kind |-> "object", has_response |-> TRUE, response |-> text, done |-> d]
PlainObject(d) == [kind |-> "object", has_response |-> FALSE, response |-> "", done |-> d]

Lines ==
    {EmptyLine, MalformedLine, NonObjectLine, PlainObject("false")}
    \cup {ResponseObject(t, d) : t \in {"4", "2"}, d \in {"absent", "true"}}
    \cup {PlainObject(d) : d \in {"absent", "true"}}

LineSeqs == UNION {[1..n -> Lines] : n \in 0..MaxLines}

\* open_fails: the connection fails before any status is seen
\* ends: after the last line the body ends ("eof") or the transport raises
Upstreams ==
    [open_fails : BOOLEAN, status : Statuses, lines : LineSeqs, ends : {"eof", "error"}]

\* BaseAIProvider._format_stream_response: the envelope
FormatStreamResponse(content, isDone) == [response |-> content, done |-> isDone]

\* BaseAIProvider._handle_error(e, "chat_stream")
HandleError(e) ==
    CASE e = "ConnectError" -> "Error in ollama (chat_stream): ConnectError"
      [] e = "ReadError"    -> "Error in ollama (chat_stream): ReadError"
      [] OTHER              -> "Error in ollama (chat_stream): TypeError"

\* the message of the envelope for a status other than 200
StatusErrorText(st) ==
    CASE st = 204 -> "Error: Ollama API returned 204"
      [] st = 404 -> "Error: Ollama API returned 404"
      [] OTHER    -> "Error: Ollama API returned 500"

\* faulty variant of StatusAccepted: only server errors are refused
StatusAccepted_Below500(st) == st < 500

\* chat_stream: the status check at stream open (status_code != 200 refuses)
StatusAccepted(st) == st = 200

\* data.get("done", False)
DoneFlag(line) == line.done = "true"

\* faulty variant of ProcessLine: no break after the terminal envelope
ProcessLine_NoBreak(line) ==
    CASE line.kind \in {"empty", "malformed"} -> [yields |-> <<>>, stop |-> FALSE]
      [] line.kind = "nonobject" ->
            [yields |-> <<FormatStreamResponse(HandleError("TypeError"), TRUE)>>, stop |-> TRUE]
      [] OTHER ->
            [yields |->
                (IF line.has_response
                    THEN <<FormatStreamResponse(line.response, FALSE)>> ELSE <<>>)
                \o (IF DoneFlag(line) THEN <<FormatStreamResponse("", TRUE)>> ELSE <<>>),
             stop |-> FALSE]

\* faulty variant of ProcessLine: a line that fails to parse is not caught by the
\* inner handler and ends the stream through the outer one
ProcessLine_MalformedFatal(line) ==
    CASE line.kind = "empty" -> [yields |-> <<>>, stop |-> FALSE]
      [] line.kind \in {"malformed", "nonobject"} ->
            [yields |-> <<FormatStreamResponse(HandleError("TypeError"), TRUE)>>, stop |-> TRUE]
      [] OTHER ->
            [yields |->
                (IF line.has_response
                    THEN <<FormatStreamResponse(line.response, FALSE)>> ELSE <<>>)
                \o (IF DoneFlag(line) THEN <<FormatStreamResponse("", TRUE)>> ELSE <<>>),
             stop |-> DoneFlag(line)]

\* chat_stream: one turn of the loop over aiter_lines: the envelopes the
\* line yields and whether the generator ends with it
ProcessLine(line) ==
    CASE line.kind \in {"empty", "malformed"} -> [yields |-> <<>>, stop |-> FALSE]
      [] line.kind = "nonobject" ->
            \* "response" in data / data.get raise; the outer handler yields
            [yields |-> <<FormatStreamResponse(HandleError("TypeError"), TRUE)>>, stop |-> TRUE]
      [] OTHER ->
            [yields |->
                (IF line.has_response
                    THEN <<FormatStreamResponse(line.response, FALSE)>> ELSE <<>>)
                \o (IF DoneFlag(line) THEN <<FormatStreamResponse("", TRUE)>> ELSE <<>>),
             stop |-> DoneFlag(line)]

\* no ConfigManager in use (the clock apart)
ConfigIdleButClock ==
    /\ defaults = EmptyDoc
    /\ config = EmptyDoc
    /\ file = AbsentFile
    /\ backup_file = AbsentFile
    /\ cpc = "unused"
    /\ last = Call("none", None, None, FALSE)

ConfigIdle ==
    /\ ConfigIdleButClock
    /\ now = 0

StreamInit ==
    /\ upstream \in Upstreams
    /\ spc = "start"
    /\ pos = 0
    /\ out = <<>>
    /\ ConfigIdle
    /\ PromptIdle
    /\ CacheIdle
    /\ ExtraIdle

\* chat_stream up to the status check
OpenStream ==
    /\ spc = "start"
    /\ IF upstream.open_fails
       THEN /\ out' = <<FormatStreamResponse(HandleError("ConnectError"), TRUE)>>
            /\ spc' = "closed"
       ELSE IF ~StatusAccepted(upstream.status)
       THEN /\ out' = <<FormatStreamResponse(StatusErrorText(upstream.status), TRUE)>>
            /\ spc' = "closed"
       ELSE /\ out' = out
            /\ spc' = "lines"
    /\ UNCHANGED <<upstream, pos>>
    /\ UNCHANGED configVars
    /\ UNCHANGED promptVars
    /\ UNCHANGED cacheVars
    /\ UNCHANGED extraVars

\* chat_stream: the loop body on the next upstream line
ReadLine ==
    /\ spc = "lines"
    /\ pos < Len(upstream.lines)
    /\ LET r == ProcessLine(upstream.lines[pos + 1]) IN
        /\ out' = out \o r.yields
        /\ spc' = IF r.stop THEN "closed" ELSE "lines"
    /\ pos' = pos + 1
    /\ UNCHANGED upstream
    /\ UNCHANGED configVars
    /\ UNCHANGED promptVars
    /\ UNCHANGED cacheVars
    /\ UNCHANGED extraVars

\* chat_stream: aiter_lines is exhausted, or raises after the last line
EndOfLines ==
    /\ spc = "lines"
    /\ pos = Len(upstream.lines)
    /\ out' = IF upstream.ends = "error"
              THEN Append(out, FormatStreamResponse(HandleError("ReadError"), TRUE))
              ELSE out
    /\ spc' = "closed"
    /\ UNCHANGED <<upstream, pos>>
    /\ UNCHANGED configVars
    /\ UNCHANGED promptVars
    /\ UNCHANGED cacheVars
    /\ UNCHANGED extraVars

StreamNext ==
    \/ OpenStream
    \/ ReadLine
    \/ EndOfLines

StreamSpec == StreamInit /\ [][StreamNext]_vars

(***************************************************************************)
(* Claims about chat_stream (checked under StreamSpec).                    *)
(***************************************************************************)
Finished == spc = "closed"
TerminalCount(s) == Cardinality({i \in 1..Len(s) : s[i].done})
IsTerminal(e) == e.done
IsFragment(e) == ~e.done
HasResponse(line) == line.kind = "object" /\ line.has_response
DoneIndexes(ls) == {i \in 1..Len(ls) : ls[i].kind = "object" /\ DoneFlag(ls[i])}
FirstDone(ls) == CHOOSE i \in DoneIndexes(ls) : \A j \in DoneIndexes(ls) : i <= j
TextsOf(s) == [i \in 1..Len(s) |-> s[i].response]

\* C2 (as claimed): every finished chat_stream sequence holds exactly one
\* done=true envelope and it is the last element, whatever the upstream did.
C2_ExactlyOneTerminalLast ==
    Finished =>
        /\ TerminalCount(out) = 1
        /\ out[Len(out)].done

\* C3: when the upstream lines hold an object with done true, the finished
\* sequence holds exactly one terminal envelope, it is the last element, no
\* line after the first done object is consumed, and at no time does an
\* envelope follow a terminal one.
C3_EndsAtFirstDone ==
    /\ \A i \in 1..Len(out) : out[i].done => (i = Len(out) /\ Finished)
    /\ (Finished /\ DoneIndexes(upstream.lines) # {}) =>
            /\ TerminalCount(out) = 1
            /\ out[Len(out)].done
            /\ pos <= FirstDone(upstream.lines)
            /\ ( /\ ~upstream.open_fails
                 /\ upstream.status = 200
                 /\ \A j \in 1..FirstDone(upstream.lines) :
                        upstream.lines[j].kind # "nonobject" ) =>
                    /\ pos = FirstDone(upstream.lines)
                    /\ out[Len(out)] = FormatStreamResponse("", TRUE)

\* C3 witness: the stream ended at a done object in second place while a
\* third upstream line was left unread.
C3_Witness ==
    /\ Finished
    /\ Len(upstream.lines) = 3
    /\ upstream.lines[2] = PlainObject("true")
    /\ upstream.lines[3] = ResponseObject("2", "absent")
    /\ pos = 2
    /\ out = <<FormatStreamResponse("4", FALSE), FormatStreamResponse("", TRUE)>>

\* C4: a line that does not parse as JSON yields nothing and does not end
\* the stream; the non-terminal envelopes are, in order, the response texts
\* of the consumed objects that carry one; and [malformed, {"response":"4"},
\* {"done":true}] gives exactly ("4", false) then ("", true).
C4_FragmentsFollowObjects ==
    [][ /\ ( /\ spc = "lines"
             /\ pos < Len(upstream.lines)
             /\ upstream.lines[pos + 1].kind = "malformed" ) =>
                (out' = out /\ spc' = "lines" /\ pos' = pos + 1)
        /\ TextsOf(SelectSeq(out', IsFragment))
              = TextsOf(SelectSeq(SubSeq(upstream'.lines, 1, pos'), HasResponse))
        /\ ( /\ spc' = "closed"
             /\ ~upstream'.open_fails
             /\ upstream'.status = 200
             /\ upstream'.lines =
                  <<MalformedLine, ResponseObject("4", "absent"), PlainObject("true")>> ) =>
                out' = <<FormatStreamResponse("4", FALSE), FormatStreamResponse("", TRUE)>>
      ]_vars

\* C4 witness: the scenario's stream has been read to its end.
C4_Witness ==
    /\ Finished
    /\ ~upstream.open_fails
    /\ upstream.status = 200
    /\ upstream.lines = <<MalformedLine, ResponseObject("4", "absent"), PlainObject("true")>>
    /\ pos = 3
    /\ Len(out) = 2

\* C5: when the upstream answers the open with a status outside 200..299,
\* the sequence is exactly one envelope, with done=true and an error text.
C5_NonSuccessStatusOneErrorEnvelope ==
    (~upstream.open_fails /\ upstream.status \notin 200..299) =>
        /\ Len(out) <= 1
        /\ \A i \in 1..Len(out) : out[i].done
        /\ Finished =>
              /\ Len(out) = 1
              /\ out[1] = FormatStreamResponse(StatusErrorText(upstream.status), TRUE)
              /\ out[1].response # ""
              /\ pos = 0

\* C5 witness: a 404 answer whose body holds a response object has been
\* turned into its single error envelope.
C5_Witness ==
    /\ Finished
    /\ ~upstream.open_fails
    /\ upstream.status = 404
    /\ Len(upstream.lines) > 0
    /\ upstream.lines[1] = ResponseObject("4", "absent")
    /\ out = <<FormatStreamResponse("Error: Ollama API returned 404", TRUE)>>

(***************************************************************************)
(* PromptsManager: values and records.                                     *)
(*                                                                         *)
(* A text is a sequence of one-character strings, so that lower() and the  *)
(* substring test of search can be computed.  A record of the library is a *)
(* function from field names to values, as the dict it models.  The        *)
(* library is the sequence of its records in insertion order (dict order). *)
(***************************************************************************)
MaxPrompts == 2       \* ids minted by uuid4 in one behaviour
MaxClock == 3         \* readings of datetime.now() by the prompts manager

\* nullable JSON values: null, a string, an ISO timestamp string
JNull == [type |-> "null"]
JStr(chars) == [type |-> "str", chars |-> chars]
Stamp(t) == [type |-> "str", at |-> t]

NameA == <<"A", "b">>
NameB == <<"c">>
NameN == <<"N">>
BodyHi == <<"H", "i">>
BodyX == <<"b", "c">>

\* faulty variant of NewId: every save mints the same id
NewId_FromCount(n) == 1

\* str(uuid.uuid4()): the id minted after n others differs from all of them
NewId(n) == n + 1

\* the ids a caller may pass
Ids == 1..(MaxPrompts + 1)

\* position of the record with this id in the library, 0 if there is none
IndexOf(lib, id) ==
    IF \E i \in 1..Len(lib) : lib[i].id = id
    THEN CHOOSE i \in 1..Len(lib) : lib[i].id = id
    ELSE 0

HasId(lib, id) == IndexOf(lib, id) # 0

\* self._prompts[id] = rec: replaces in place or appends
DictSet(lib, id, rec) ==
    IF HasId(lib, id)
    THEN [lib EXCEPT ![IndexOf(lib, id)] = rec]
    ELSE Append(lib, rec)

\* self._prompts.pop(id)
DictPop(lib, id) ==
    LET i == IndexOf(lib, id) IN
    [j \in 1..(Len(lib) - 1) |-> IF j < i THEN lib[j] ELSE lib[j + 1]]

\* save: the record built from the arguments at clock t
NewRecord(id, req, t) ==
    [id |-> id, name |-> req.name, prompt |-> req.prompt,
     description |-> req.description, category |-> req.category,
     tags |-> req.tags, created_at |-> t, last_used |-> JNull,
     use_count |-> 0, version |-> "1.0"]

SaveRequest(name, prompt, description, category, tags) ==
    [name |-> name, prompt |-> prompt, description |-> description,
     category |-> category, tags |-> tags]

\* save(name, prompt) with the signature's defaults; POST /prompts without
\* a description (SavePromptRequest.description is None); a full save
SaveRequests ==
    { SaveRequest(NameA, BodyHi, JNull, "general", {}),
      SaveRequest(NameB, BodyX, JStr(<<"d">>), "math", {"t1"}) }

\* keyword arguments a caller passes to update
UpdatePayloads ==
    { [id |-> 99, created_at |-> 99, use_count |-> 7, prompt |-> BodyHi,
       last_used |-> Stamp(0)] }

\* update: forbidden_fields
ForbiddenFields == {"id", "created_at", "use_count"}

\* faulty variant of AllowedUpdates: nothing is filtered
AllowedUpdates_Unfiltered(updates, t) ==
    Merge(updates, [k \in {"modified_at"} |-> t])

\* update: allowed_updates, with the modification stamp
AllowedUpdates(updates, t) ==
    Merge(Restrict(updates, DOMAIN updates \ ForbiddenFields),
          [k \in {"modified_at"} |-> t])

\* update of an existing record: the library after it
UpdatedLibrary(lib, id, updates, t) ==
    [lib EXCEPT ![IndexOf(lib, id)] = Merge(@, AllowedUpdates(updates, t))]

\* faulty variant of MarkedUsed: the counter is set, not incremented
MarkedUsed_Reset(rec, t) ==
    Merge(rec, [k \in {"last_used", "use_count"} |->
                    IF k = "last_used" THEN Stamp(t) ELSE 1])

\* mark_used on an existing record
MarkedUsed(rec, t) ==
    Merge(rec, [k \in {"last_used", "use_count"} |->
                    IF k = "last_used" THEN Stamp(t) ELSE rec.use_count + 1])

KeyError == [error |-> "KeyError"]

\* the ids a caller passes: those of the library and one id that is not in it
\* (the code keeps no trace of absent ids, so one stands for all)
CallIds(lib) ==
    {lib[i].id : i \in 1..Len(lib)}
        \cup {CHOOSE id \in Ids : ~HasId(lib, id) /\ \A o \in Ids : ~HasId(lib, o) => id <= o}

(***************************************************************************)
(* PromptsManager: operations.                                             *)
(***************************************************************************)
OthersIdle ==
    /\ ConfigIdleButClock
    /\ StreamIdle
    /\ CacheIdle
    /\ ExtraIdle

\* PromptsManager.__init__ on a path with no file: _load_prompts saves {}
PromptInit ==
    /\ prompts = <<>>
    /\ prompts_file = <<>>
    /\ export_file = [exists |-> FALSE, prompts |-> <<>>]
    /\ next_id = 0
    /\ plast = Call("init", None, None, FALSE)
    /\ now = 0
    /\ OthersIdle

\* PromptsManager.save
PSave ==
    /\ next_id < MaxPrompts
    /\ now < MaxClock
    /\ \E req \in SaveRequests :
        LET id == NewId(next_id)
            rec == NewRecord(id, req, now + 1) IN
        /\ prompts' = DictSet(prompts, id, rec)
        /\ plast' = Call("save", req, rec, FALSE)
    /\ prompts_file' = prompts'
    /\ next_id' = next_id + 1
    /\ now' = now + 1
    /\ UNCHANGED export_file
    /\ UNCHANGED <<defaults, config, file, backup_file, cpc, last>>
    /\ UNCHANGED streamVars
    /\ UNCHANGED cacheVars
    /\ UNCHANGED extraVars

\* faulty variant of GetOutcome: an unknown id raises
GetOutcome_Raises(lib, id) ==
    IF HasId(lib, id)
    THEN Call("get", id, lib[IndexOf(lib, id)], FALSE)
    ELSE Call("get", id, KeyError, TRUE)

\* get: return self._prompts.get(prompt_id)
GetOutcome(lib, id) ==
    Call("get", id, IF HasId(lib, id) THEN lib[IndexOf(lib, id)] ELSE None, FALSE)

\* PromptsManager.get
PGet ==
    /\ \E id \in CallIds(prompts) :
        plast' = GetOutcome(prompts, id)
    /\ UNCHANGED <<prompts, prompts_file, export_file, next_id, now>>
    /\ UNCHANGED <<defaults, config, file, backup_file, cpc, last>>
    /\ UNCHANGED streamVars
    /\ UNCHANGED cacheVars
    /\ UNCHANGED extraVars

\* PromptsManager.update
PUpdate ==
    /\ \E id \in CallIds(prompts), u \in UpdatePayloads :
        IF ~HasId(prompts, id)
        THEN /\ plast' = Call("update", [id |-> id, updates |-> u], KeyError, TRUE)
             /\ UNCHANGED <<prompts, prompts_file, now>>
        ELSE /\ now < MaxClock
             /\ prompts' = UpdatedLibrary(prompts, id, u, now + 1)
             /\ prompts_file' = prompts'
             /\ now' = now + 1
             /\ plast' = Call("update", [id |-> id, updates |-> u],
                              prompts'[IndexOf(prompts, id)], FALSE)
    /\ UNCHANGED <<export_file, next_id>>
    /\ UNCHANGED <<defaults, config, file, backup_file, cpc, last>>
    /\ UNCHANGED streamVars
    /\ UNCHANGED cacheVars
    /\ UNCHANGED extraVars

\* PromptsManager.delete
PDelete ==
    /\ \E id \in CallIds(prompts) :
        IF ~HasId(prompts, id)
        THEN /\ plast' = Call("delete", id, KeyError, TRUE)
             /\ UNCHANGED <<prompts, prompts_file>>
        ELSE /\ prompts' = DictPop(prompts, id)
             /\ prompts_file' = prompts'
             /\ plast' = Call("delete", id, prompts[IndexOf(prompts, id)], FALSE)
    /\ UNCHANGED <<export_file, next_id, now>>
    /\ UNCHANGED <<defaults, config, file, backup_file, cpc, last>>
    /\ UNCHANGED streamVars
    /\ UNCHANGED cacheVars
    /\ UNCHANGED extraVars

\* PromptsManager.mark_used
PMarkUsed ==
    /\ \E id \in CallIds(prompts) :
        /\ plast' = Call("mark_used", id, None, FALSE)
        /\ IF ~HasId(prompts, id)
           THEN UNCHANGED <<prompts, prompts_file, now>>
           ELSE /\ now < MaxClock
                /\ prompts' = [prompts EXCEPT ![IndexOf(prompts, id)] = MarkedUsed(@, now + 1)]
                /\ prompts_file' = prompts'
                /\ now' = now + 1
    /\ UNCHANGED <<export_file, next_id>>
    /\ UNCHANGED <<defaults, config, file, backup_file, cpc, last>>
    /\ UNCHANGED streamVars
    /\ UNCHANGED cacheVars
    /\ UNCHANGED extraVars

(***************************************************************************)
(* PromptsManager.search                                                   *)
(***************************************************************************)
\* str.lower() on the characters of the model
Lower(c) ==
    CASE c = "A" -> "a"
      [] c = "B" -> "b"
      [] c = "H" -> "h"
      [] c = "N" -> "n"
      [] OTHER   -> c

LowerText(t) == [i \in 1..Len(t) |-> Lower(t[i])]

\* q in t, for strings
IsSubstring(q, t) ==
    \E k \in 0..Len(t) : k + Len(q) <= Len(t) /\ SubSeq(t, k + 1, k + Len(q)) = q

\* name + ' ' + description + ' ' + prompt raises TypeError when the
\* description is None
TextRaises(rec) == rec.description = JNull

\* (name + ' ' + description + ' ' + prompt).lower()
SearchableText(rec) ==
    LowerText(rec.name \o <<" ">> \o rec.description.chars \o <<" ">> \o rec.prompt)

\* the arguments of search: query "" / category None / tags None mean no filter
SearchArgs(query, category, tags) == [query |-> query, category |-> category, tags |-> tags]
SearchCalls ==
    { SearchArgs(<<>>, "", {}),
      SearchArgs(<<"H", "I">>, "", {}),
      SearchArgs(<<"b", " ">>, "general", {}),
      SearchArgs(<<>>, "math", {"t1", "t2"}) }

\* if category and prompt_data.get('category') != category: continue
PassesCategory(rec, category) == category = "" \/ rec.category = category

\* if tags: if not any(tag in prompt_tags for tag in tags): continue
PassesTags(rec, tags) == tags = {} \/ rec.tags \cap tags # {}

\* the record reaches the text filter
ReachesText(rec, a) ==
    /\ PassesCategory(rec, a.category)
    /\ PassesTags(rec, a.tags)
    /\ a.query # <<>>

\* the loop of search raises on some record
FilterRaises(lib, a) ==
    \E i \in 1..Len(lib) : ReachesText(lib[i], a) /\ TextRaises(lib[i])

\* the record is appended to results (when the loop does not raise)
Selected(rec, a) ==
    /\ PassesCategory(rec, a.category)
    /\ PassesTags(rec, a.tags)
    /\ (a.query # <<>> => IsSubstring(LowerText(a.query), SearchableText(rec)))

RECURSIVE Filtered(_, _, _)
Filtered(lib, a, i) ==
    IF i > Len(lib) THEN <<>>
    ELSE (IF Selected(lib[i], a) THEN <<lib[i]>> ELSE <<>>) \o Filtered(lib, a, i + 1)

\* comparing the sort keys (use_count, last_used) of two records raises
\* TypeError when the counts tie and one last_used is None, the other a string
KeysIncomparable(r1, r2) ==
    /\ r1.use_count = r2.use_count
    /\ (r1.last_used = JNull) # (r2.last_used = JNull)

SortRaises(res) ==
    \E i, j \in 1..Len(res) : KeysIncomparable(res[i], res[j])

\* key(r1) > key(r2), for comparable keys
KeyGreater(r1, r2) ==
    \/ r1.use_count > r2.use_count
    \/ /\ r1.use_count = r2.use_count
       /\ r1.last_used # JNull
       /\ r2.last_used # JNull
       /\ r1.last_used.at > r2.last_used.at

\* results.sort(key=..., reverse=True): stable, greatest key first
SortedResults(res) ==
    LET Rank(i) ==
            1 + Cardinality({j \in 1..Len(res) :
                    \/ KeyGreater(res[j], res[i])
                    \/ (~KeyGreater(res[i], res[j]) /\ j < i)})
    IN [k \in 1..Len(res) |-> res[CHOOSE i \in 1..Len(res) : Rank(i) = k]]

TypeErrorAt(site) == [error |-> "TypeError", site |-> site]

\* search: what the call returns or raises
SearchOutcome(lib, a) ==
    IF FilterRaises(lib, a)
    THEN Call("search", a, TypeErrorAt("text"), TRUE)
    ELSE IF SortRaises(Filtered(lib, a, 1))
    THEN Call("search", a, TypeErrorAt("sort"), TRUE)
    ELSE Call("search", a, SortedResults(Filtered(lib, a, 1)), FALSE)

\* PromptsManager.search
PSearch ==
    /\ \E a \in SearchCalls : plast' = SearchOutcome(prompts, a)
    /\ UNCHANGED <<prompts, prompts_file, export_file, next_id, now>>
    /\ UNCHANGED <<defaults, config, file, backup_file, cpc, last>>
    /\ UNCHANGED streamVars
    /\ UNCHANGED cacheVars
    /\ UNCHANGED extraVars

(***************************************************************************)
(* PromptsManager.export_prompts / import_prompts                          *)
(***************************************************************************)
ItemNew == [name |-> NameN, prompt |-> BodyHi]
ItemNoPrompt == [name |-> NameN]
ItemNoName == [prompt |-> BodyHi]
\* import files that do not come from export_prompts; JNull is a prompts
\* entry that is not an object
ImportBatches ==
    { <<ItemNew, ItemNew>>,
      <<ItemNoName, ItemNew, ItemNew>>,
      <<ItemNoPrompt, ItemNoName, ItemNew, JNull, ItemNew>> }

IsDict(item) == item # JNull

\* faulty variant of FirstNamed: no name ever matches
FirstNamed_Never(lib, name) == 0

\* the first record of the library with this name, 0 if there is none
FirstNamed(lib, name) ==
    IF \E i \in 1..Len(lib) : lib[i].name = name
    THEN CHOOSE i \in 1..Len(lib) :
            lib[i].name = name /\ \A j \in 1..(i - 1) : lib[j].name # name
    ELSE 0

\* prompt_data.get(field, default)
ItemGet(item, field, dflt) == IF field \in DOMAIN item THEN item[field] ELSE dflt

\* the arguments import passes to save
ImportSaveRequest(item) ==
    SaveRequest(item.name, item.prompt,
                ItemGet(item, "description", JStr(<<>>)),
                ItemGet(item, "category", "general"),
                ItemGet(item, "tags", {}))

\* the keyword arguments import passes to update
ImportUpdateFields(item) == Restrict(item, DOMAIN item \ {"id", "created_at", "use_count"})

\* faulty variant of ImportStep: a name match is always skipped
ImportStep_NeverOverwrites(st, item, overwrite) ==
    IF ~IsDict(item) THEN [st EXCEPT !.aborted = TRUE]
    ELSE IF "name" \notin DOMAIN item THEN [st EXCEPT !.errors = Append(@, "KeyError: name")]
    ELSE LET ex == FirstNamed(st.lib, item.name) IN
         IF ex # 0 THEN [st EXCEPT !.skipped = @ + 1]
         ELSE IF "prompt" \notin DOMAIN item
         THEN [st EXCEPT !.errors = Append(@, "KeyError: prompt")]
         ELSE [st EXCEPT !.lib = DictSet(st.lib, NewId(st.next_id),
                                  NewRecord(NewId(st.next_id), ImportSaveRequest(item), st.now + 1)),
                         !.next_id = @ + 1, !.now = @ + 1, !.imported = @ + 1]

\* faulty variant of ImportStep: a skipped record is not counted
ImportStep_SkipsUncounted(st, item, overwrite) ==
    IF ~IsDict(item) THEN [st EXCEPT !.aborted = TRUE]
    ELSE IF "name" \notin DOMAIN item THEN [st EXCEPT !.errors = Append(@, "KeyError: name")]
    ELSE LET ex == FirstNamed(st.lib, item.name) IN
         IF ex # 0 /\ ~overwrite
         THEN st
         ELSE IF ex # 0
         THEN [st EXCEPT !.lib = UpdatedLibrary(st.lib, st.lib[ex].id,
                                                ImportUpdateFields(item), st.now + 1),
                         !.now = @ + 1, !.imported = @ + 1]
         ELSE IF "prompt" \notin DOMAIN item
         THEN [st EXCEPT !.errors = Append(@, "KeyError: prompt")]
         ELSE [st EXCEPT !.lib = DictSet(st.lib, NewId(st.next_id),
                                  NewRecord(NewId(st.next_id), ImportSaveRequest(item), st.now + 1)),
                         !.next_id = @ + 1, !.now = @ + 1, !.imported = @ + 1]

\* import_prompts: one turn of the loop over the incoming records
ImportStep(st, item, overwrite) ==
    IF ~IsDict(item)
    THEN \* prompt_data['name'] raises; so does prompt_data.get in the handler
         [st EXCEPT !.aborted = TRUE]
    ELSE IF "name" \notin DOMAIN item
    THEN [st EXCEPT !.errors = Append(@, "KeyError: name")]
    ELSE LET ex == FirstNamed(st.lib, item.name) IN
         IF ex # 0 /\ ~overwrite
         THEN [st EXCEPT !.skipped = @ + 1]
         ELSE IF ex # 0
         THEN [st EXCEPT !.lib = UpdatedLibrary(st.lib, st.lib[ex].id,
                                                ImportUpdateFields(item), st.now + 1),
                         !.now = @ + 1, !.imported = @ + 1]
         ELSE IF "prompt" \notin DOMAIN item
         THEN [st EXCEPT !.errors = Append(@, "KeyError: prompt")]
         ELSE [st EXCEPT !.lib = DictSet(st.lib, NewId(st.next_id),
                                  NewRecord(NewId(st.next_id), ImportSaveRequest(item), st.now + 1)),
                         !.next_id = @ + 1, !.now = @ + 1, !.imported = @ + 1]

\* import_prompts: the loop from the i-th incoming record on
RECURSIVE ImportFold(_, _, _, _)
ImportFold(st, items, i, overwrite) ==
    IF i > Len(items) \/ st.aborted THEN st
    ELSE ImportFold(ImportStep(st, items[i], overwrite), items, i + 1, overwrite)

\* import_prompts: the state of the call when it returns or raises
ImportResult(lib, items, overwrite, nid, t) ==
    ImportFold([lib |-> lib, next_id |-> nid, now |-> t, total |-> Len(items),
                imported |-> 0, skipped |-> 0, errors |-> <<>>, aborted |-> FALSE],
               items, 1, overwrite)

ImportStats(st) ==
    [total |-> st.total, imported |-> st.imported, skipped |-> st.skipped,
     errors |-> st.errors]

\* export_prompts: the records written under "prompts"
Exported(lib, category) ==
    SelectSeq(lib, LAMBDA rec : category = "" \/ rec.category = category)

\* PromptsManager.export_prompts
PExport ==
    /\ \E category \in {"", "math"} :
        /\ export_file' = [exists |-> TRUE, prompts |-> Exported(prompts, category)]
        /\ plast' = Call("export", category, None, FALSE)
    /\ UNCHANGED <<prompts, prompts_file, next_id, now>>
    /\ UNCHANGED <<defaults, config, file, backup_file, cpc, last>>
    /\ UNCHANGED streamVars
    /\ UNCHANGED cacheVars
    /\ UNCHANGED extraVars

\* the files import_prompts can be pointed at: the file export_prompts wrote
\* (or its missing path) and files from elsewhere
ImportFiles == {export_file} \cup {[exists |-> TRUE, prompts |-> b] : b \in ImportBatches}

\* PromptsManager.import_prompts
PImport ==
    /\ \E overwrite \in BOOLEAN, f \in ImportFiles :
        IF ~f.exists
        THEN /\ plast' = Call("import", [overwrite |-> overwrite, items |-> <<>>],
                              [error |-> "FileNotFoundError"], TRUE)
             /\ UNCHANGED <<prompts, prompts_file, next_id, now>>
        ELSE \E st \in {ImportResult(prompts, f.prompts, overwrite, next_id, now)} :
             /\ st.next_id <= MaxPrompts
             /\ st.now <= MaxClock
             /\ prompts' = st.lib
             /\ prompts_file' = IF st.now = now THEN prompts_file ELSE st.lib
             /\ next_id' = st.next_id
             /\ now' = st.now
             /\ plast' = Call("import",
                              [overwrite |-> overwrite, items |-> f.prompts],
                              IF st.aborted
                              THEN [error |-> "AttributeError", state |-> ImportStats(st)]
                              ELSE ImportStats(st),
                              st.aborted)
    /\ UNCHANGED export_file
    /\ UNCHANGED <<defaults, config, file, backup_file, cpc, last>>
    /\ UNCHANGED streamVars
    /\ UNCHANGED cacheVars
    /\ UNCHANGED extraVars

PromptNext ==
    \/ PSave
    \/ PGet
    \/ PUpdate
    \/ PDelete
    \/ PMarkUsed
    \/ PSearch
    \/ PExport
    \/ PImport

PromptSpec == PromptInit /\ [][PromptNext]_vars

(***************************************************************************)
(* Prompt library: properties.                                             *)
(***************************************************************************)
\* the record of the library with this id
RecordOf(lib, id) == lib[IndexOf(lib, id)]

\* the id a get, update, delete or mark_used call was given
CalledId(c) == IF c.op = "update" THEN c.arg.id ELSE c.arg

\* the step deletes the record with this id
Deletes(c, id) == c.op = "delete" /\ c.arg = id

\* every record of the library outlives the step, except one that is deleted
RecordsPersist ==
    \A i \in 1..Len(prompts) :
        ~Deletes(plast', prompts[i].id) => HasId(prompts', prompts[i].id)

\* C11: whatever the clients do after a record is created (update with any
\* fields, import with or without overwrite, save of other records), the
\* record keeps the id and created_at of its creation and its use_count
\* changes only in mark_used; update raises nothing for the three protected
\* fields, applies the other fields and stamps modified_at with the time of
\* the call.
C11_ProtectedFields ==
    [][ /\ RecordsPersist
        /\ \A i \in 1..Len(prompts) :
             HasId(prompts', prompts[i].id) =>
                /\ RecordOf(prompts', prompts[i].id).created_at = prompts[i].created_at
                /\ (RecordOf(prompts', prompts[i].id).use_count # prompts[i].use_count
                        => plast'.op = "mark_used")
        /\ (plast'.op = "update" /\ HasId(prompts, plast'.arg.id)) =>
                /\ ~plast'.raised
                /\ now' > now
                /\ RecordOf(prompts', plast'.arg.id).modified_at = now'
                /\ \A k \in DOMAIN plast'.arg.updates \ ForbiddenFields :
                      RecordOf(prompts', plast'.arg.id)[k] = plast'.arg.updates[k]
      ]_vars

\* an update that named the three protected fields went through and the
\* record still has its own id, creation time and counter
C11_Witness ==
    /\ plast.op = "update"
    /\ ~plast.raised
    /\ ForbiddenFields \subseteq DOMAIN plast.arg.updates
    /\ plast.ret.id = plast.arg.id
    /\ plast.ret.id # plast.arg.updates.id
    /\ plast.ret.use_count = 1
    /\ plast.ret.prompt = plast.arg.updates.prompt
    /\ plast.ret.modified_at = now

\* no two records of the library have the same id
NoDuplicateIds(lib) ==
    \A i, j \in 1..Len(lib) : lib[i].id = lib[j].id => i = j

\* C12: every save adds one record whose id is the id of no record of the
\* library at that time, whether or not its name is already in use; ids stay
\* distinct, a record stays in the library until it is deleted, and get(id)
\* returns the record whose id field is that id.
C12_FreshStableIds ==
    [][ /\ plast'.op = "save" =>
              /\ ~HasId(prompts, plast'.ret.id)
              /\ Len(prompts') = Len(prompts) + 1
              /\ RecordOf(prompts', plast'.ret.id) = plast'.ret
        /\ NoDuplicateIds(prompts')
        /\ RecordsPersist
        /\ (plast'.op = "get" /\ HasId(prompts, plast'.arg)) =>
              /\ ~plast'.raised
              /\ plast'.ret.id = plast'.arg
              /\ plast'.ret \in {prompts[i] : i \in 1..Len(prompts)}
      ]_vars

\* two records with one name and two ids, the second returned by get
C12_Witness ==
    /\ Len(prompts) = 2
    /\ prompts[1].name = prompts[2].name
    /\ prompts[1].id # prompts[2].id
    /\ plast.op = "get"
    /\ plast.arg = prompts[2].id
    /\ plast.ret = prompts[2]

\* C13: mark_used on a record of the library adds exactly 1 to its use_count
\* and sets last_used to the time of the call; in no step does the use_count
\* of a record that stays in the library go down, and it is never negative.
C13_UseCountMonotonic ==
    [][ /\ (plast'.op = "mark_used" /\ HasId(prompts, plast'.arg)) =>
              /\ RecordOf(prompts', plast'.arg).use_count
                    = RecordOf(prompts, plast'.arg).use_count + 1
              /\ now' > now
              /\ RecordOf(prompts', plast'.arg).last_used = Stamp(now')
        /\ \A i \in 1..Len(prompts) :
              HasId(prompts', prompts[i].id) =>
                 RecordOf(prompts', prompts[i].id).use_count >= prompts[i].use_count
        /\ \A i \in 1..Len(prompts') : prompts'[i].use_count >= 0
      ]_vars

\* a record marked used twice
C13_Witness ==
    /\ plast.op = "mark_used"
    /\ HasId(prompts, plast.arg)
    /\ RecordOf(prompts, plast.arg).use_count = 2
    /\ RecordOf(prompts, plast.arg).last_used = Stamp(now)

\* the call is a get, update or delete of an id that is not in the library
UnknownIdCall ==
    /\ plast'.op \in {"get", "update", "delete"}
    /\ ~HasId(prompts, CalledId(plast'))

\* C14, as claimed: delete, update and get of an id that is not in the
\* library each fail with a not-found error and leave the library unchanged.
C14_UnknownIdFails ==
    [][ UnknownIdCall => (plast'.raised /\ prompts' = prompts) ]_vars

\* C14, amended: delete and update of an id that is not in the library raise
\* KeyError, get returns None without an error; all three leave the library
\* and its file unchanged.
C14_UnknownIdOutcome ==
    [][ UnknownIdCall =>
            /\ prompts' = prompts
            /\ prompts_file' = prompts_file
            /\ plast'.op \in {"update", "delete"} =>
                    (plast'.raised /\ plast'.ret = KeyError)
            /\ plast'.op = "get" => (~plast'.raised /\ plast'.ret = None)
      ]_vars

\* get of an id that is not in a library of two records returned None
C14_Witness ==
    /\ plast.op = "get"
    /\ ~HasId(prompts, plast.arg)
    /\ plast.ret = None
    /\ ~plast.raised
    /\ Len(prompts) = 2

\* the file import reads is what export_prompts writes for the library as it is
ImportsOwnExport ==
    /\ plast'.op = "import"
    /\ export_file.exists
    /\ plast'.arg.items = export_file.prompts
    /\ \E c \in {"", "math"} : export_file.prompts = Exported(prompts, c)

\* C15: importing, without overwrite, the file export_prompts wrote for the
\* library as it is creates no record, changes no record and returns
\* imported = 0, skipped = total = number of exported records, no errors;
\* also when several records share a name.
C15_RoundTrip ==
    [][ (ImportsOwnExport /\ ~plast'.arg.overwrite) =>
            /\ ~plast'.raised
            /\ prompts' = prompts
            /\ plast'.ret.total = Len(export_file.prompts)
            /\ plast'.ret.skipped = Len(export_file.prompts)
            /\ plast'.ret.imported = 0
            /\ plast'.ret.errors = <<>>
      ]_vars

\* a library of two records with one name was exported and imported back
C15_Witness ==
    /\ plast.op = "import"
    /\ ~plast.arg.overwrite
    /\ export_file.exists
    /\ export_file.prompts = prompts
    /\ plast.arg.items = prompts
    /\ Len(prompts) = 2
    /\ prompts[1].name = prompts[2].name
    /\ plast.ret.skipped = 2

\* every incoming record is an object with a name and a prompt body
WellFormed(items) ==
    \A i \in 1..Len(items) :
        IsDict(items[i]) /\ {"name", "prompt"} \subseteq DOMAIN items[i]

NamesOf(recs) == {recs[i].name : i \in 1..Len(recs)}

\* the incoming record of this name that is handled last
LastNamed(items, name) ==
    items[CHOOSE i \in 1..Len(items) :
            items[i].name = name /\ \A j \in (i + 1)..Len(items) : items[j].name # name]

\* C16: import of well-formed records matches each by exact name against the
\* library of that moment. Names not in the library get one new record each,
\* with a fresh id, however often they occur in the file; records already in
\* the library keep their place, id, created_at and use_count. Without
\* overwrite the old records are untouched and every matched incoming record
\* counts one skip; with overwrite nothing is skipped and the first record of
\* each matched name takes the fields of the incoming record of that name.
C16_ImportByName ==
    [][ (plast'.op = "import" /\ ~plast'.raised /\ WellFormed(plast'.arg.items)) =>
          LET items == plast'.arg.items
              fresh == NamesOf(items) \ NamesOf(prompts)
              n == Len(prompts) IN
          /\ Len(prompts') = n + Cardinality(fresh)
          /\ NoDuplicateIds(prompts')
          /\ \A i \in 1..n :
                /\ prompts'[i].id = prompts[i].id
                /\ prompts'[i].created_at = prompts[i].created_at
                /\ prompts'[i].use_count = prompts[i].use_count
          /\ \A i \in (n + 1)..Len(prompts') :
                /\ prompts'[i].name \in fresh
                /\ \A j \in (n + 1)..Len(prompts') : prompts'[j].name = prompts'[i].name => j = i
          /\ plast'.ret.errors = <<>>
          /\ ~plast'.arg.overwrite =>
                /\ SubSeq(prompts', 1, n) = prompts
                /\ plast'.ret.imported = Cardinality(fresh)
                /\ plast'.ret.skipped = Len(items) - Cardinality(fresh)
          /\ plast'.arg.overwrite =>
                /\ plast'.ret.imported = Len(items)
                /\ plast'.ret.skipped = 0
                /\ \A i \in 1..n :
                      IF prompts[i].name \in NamesOf(items)
                            /\ i = FirstNamed(prompts, prompts[i].name)
                      THEN prompts'[i].prompt = LastNamed(items, prompts[i].name).prompt
                      ELSE prompts'[i] = prompts[i]
      ]_vars

\* an import with overwrite of two records of one new name created one record
\* and then updated it
C16_Witness ==
    /\ plast.op = "import"
    /\ ~plast.raised
    /\ plast.arg.overwrite
    /\ plast.arg.items = <<ItemNew, ItemNew>>
    /\ plast.ret.imported = 2
    /\ Len(prompts) = 2
    /\ prompts[2].name = NameN
    /\ prompts[1].name # NameN
    /\ "modified_at" \in DOMAIN prompts[2]

\* C17, as claimed: a failure on one incoming record never aborts
\* import_prompts (only a missing file makes the call fail).
C17_ImportNeverAborts ==
    (plast.op = "import" /\ plast.raised) => plast.ret.error = "FileNotFoundError"

\* i-th before j-th is the order claimed for search results
InClaimedOrder(r1, r2) ==
    \/ r1.use_count > r2.use_count
    \/ /\ r1.use_count = r2.use_count
       /\ \/ r2.last_used = JNull
          \/ (r1.last_used # JNull /\ r1.last_used.at >= r2.last_used.at)

\* C18, as claimed: search does not fail while ordering its matches, and
\* returns them by descending use_count, ties by descending last_used with
\* null last.
C18_SearchOrdered ==
    plast.op = "search" =>
        IF plast.raised
        THEN plast.ret.site # "sort"
        ELSE \A i, j \in 1..Len(plast.ret) :
                i < j => InClaimedOrder(plast.ret[i], plast.ret[j])

\* the description as text, null read as the empty string
DescriptionText(rec) == IF rec.description = JNull THEN <<>> ELSE rec.description.chars

\* the record passes the filters of the call, as the claim words them
PassesFilters(rec, a) ==
    /\ a.category # "" => rec.category = a.category
    /\ a.tags # {} => rec.tags \cap a.tags # {}
    /\ a.query # <<>> =>
          IsSubstring(LowerText(a.query),
                      LowerText(rec.name \o <<" ">> \o DescriptionText(rec)
                                    \o <<" ">> \o rec.prompt))

\* C19, as claimed: search does not fail while filtering, and returns exactly
\* the records of the library that pass all the filters given, whatever
\* records the library holds.
C19_SearchExact ==
    plast.op = "search" =>
        IF plast.raised
        THEN plast.ret.site # "text"
        ELSE {plast.ret[i] : i \in 1..Len(plast.ret)}
                = {prompts[i] : i \in {j \in 1..Len(prompts) : PassesFilters(prompts[j], plast.arg)}}

(***************************************************************************)
(* OllamaProvider: the cache of get_available_models.                      *)
(***************************************************************************)
MaxTicks == 3         \* times the clock of time.time() advances
MaxPending == 1       \* get_available_models calls suspended at once

\* seconds by which the clock advances in one step
TickSteps == {1, 299}

\* the models of the daemon when the provider is constructed
InstalledModels == <<"m1", "m2">>

\* model_name arguments of delete_model
ModelNames == {"m1", "zz"}

\* a request the daemon has not answered yet
Waiting == [kind |-> "waiting", models |-> <<>>]

\* what the GET /api/tags request can end in: status 200 with the models of
\* the daemon, another status, an exception of the client
Responses(server) ==
    { [kind |-> "200", models |-> server],
      [kind |-> "500", models |-> <<>>],
      [kind |-> "error", models |-> <<>>] }

\* faulty variant of CacheFresh: the window includes its end
CacheFresh_Inclusive(cache, stamp, t) ==
    cache.set /\ t - stamp <= CacheTimeout

\* self._models_cache is not None and
\* current_time - self._last_cache_time < self._cache_timeout
CacheFresh(cache, stamp, t) ==
    cache.set /\ t - stamp < CacheTimeout

\* what get_available_models returns, and how it got it
\* (stale: the list left the daemon before the cache was last invalidated)
ListReturn(models, network, upstream_kind, stale) ==
    [models |-> models, network |-> network, upstream |-> upstream_kind,
     stale |-> stale]

\* the suspended calls after an invalidation: the answers already on their
\* way were made before it
Outdated(calls) ==
    [i \in 1..Len(calls) |->
        IF calls[i].resp = Waiting THEN calls[i] ELSE [calls[i] EXCEPT !.old = TRUE]]

RemoveAt(seq, i) == SubSeq(seq, 1, i - 1) \o SubSeq(seq, i + 1, Len(seq))

\* OllamaProvider.__init__
CacheInit ==
    /\ models_cache = NoCache
    /\ last_cache_time = 0
    /\ ctime = StartTime
    /\ ticks = 0
    /\ server_models = InstalledModels
    /\ pending = <<>>
    /\ wrote = NoFetch
    /\ clast = Call("init", None, None, FALSE)
    /\ ConfigIdle
    /\ StreamIdle
    /\ PromptIdle
    /\ ExtraIdle

\* get_available_models up to its await: the cache check
ListStart ==
    /\ IF CacheFresh(models_cache, last_cache_time, ctime)
       THEN /\ clast' = Call("list_models", ctime,
                             ListReturn(models_cache.models, FALSE, "none", wrote.stale), FALSE)
            /\ UNCHANGED pending
       ELSE /\ Len(pending) < MaxPending
            /\ pending' = Append(pending, [start |-> ctime, resp |-> Waiting, old |-> FALSE])
            /\ UNCHANGED clast
    /\ UNCHANGED <<models_cache, last_cache_time, ctime, ticks, server_models, wrote>>
    /\ UNCHANGED <<configVars, streamVars, promptVars>>
    /\ UNCHANGED extraVars

\* the daemon answers a GET /api/tags, or the request fails
ServerAnswers ==
    /\ \E i \in 1..Len(pending) :
        /\ pending[i].resp = Waiting
        /\ \E r \in Responses(server_models) :
              pending' = [pending EXCEPT ![i].resp = r]
    /\ UNCHANGED <<models_cache, last_cache_time, ctime, ticks, server_models, wrote, clast>>
    /\ UNCHANGED <<configVars, streamVars, promptVars>>
    /\ UNCHANGED extraVars

\* get_available_models after its await
ListFinish ==
    /\ \E i \in 1..Len(pending) :
        /\ pending[i].resp # Waiting
        /\ IF pending[i].resp.kind = "200"
           THEN /\ models_cache' = Cached(pending[i].resp.models)
                /\ last_cache_time' = pending[i].start
                /\ wrote' = [valid |-> TRUE, start |-> pending[i].start,
                             models |-> pending[i].resp.models,
                             stale |-> pending[i].old]
                /\ clast' = Call("list_models", pending[i].start,
                                 ListReturn(pending[i].resp.models, TRUE, "200", pending[i].old), FALSE)
           ELSE /\ clast' = Call("list_models", pending[i].start,
                                 ListReturn(<<>>, TRUE, pending[i].resp.kind, FALSE), FALSE)
                /\ UNCHANGED <<models_cache, last_cache_time, wrote>>
        /\ pending' = RemoveAt(pending, i)
    /\ UNCHANGED <<ctime, ticks, server_models>>
    /\ UNCHANGED <<configVars, streamVars, promptVars>>
    /\ UNCHANGED extraVars

\* OllamaProvider.delete_model
DeleteModel ==
    /\ \E name \in ModelNames, fails \in BOOLEAN :
        IF ~fails /\ \E i \in 1..Len(server_models) : server_models[i] = name
        THEN /\ server_models' = SelectSeq(server_models, LAMBDA m : m # name)
             /\ models_cache' = NoCache
             /\ wrote' = NoFetch
             /\ pending' = Outdated(pending)
             /\ clast' = Call("delete_model", name, [ok |-> TRUE], FALSE)
        ELSE /\ clast' = Call("delete_model", name, [ok |-> FALSE], FALSE)
             /\ UNCHANGED <<server_models, models_cache, wrote, pending>>
    /\ UNCHANGED <<last_cache_time, ctime, ticks>>
    /\ UNCHANGED <<configVars, streamVars, promptVars>>
    /\ UNCHANGED extraVars

\* OllamaProvider.clear_models_cache
ClearModelsCache ==
    /\ models_cache' = NoCache
    /\ last_cache_time' = 0
    /\ wrote' = NoFetch
    /\ pending' = Outdated(pending)
    /\ clast' = Call("clear_models_cache", None, None, FALSE)
    /\ UNCHANGED <<ctime, ticks, server_models>>
    /\ UNCHANGED <<configVars, streamVars, promptVars>>
    /\ UNCHANGED extraVars

\* time passes
Tick ==
    /\ ticks < MaxTicks
    /\ \E d \in TickSteps : ctime' = ctime + d
    /\ ticks' = ticks + 1
    /\ UNCHANGED <<models_cache, last_cache_time, server_models, pending, wrote, clast>>
    /\ UNCHANGED <<configVars, streamVars, promptVars>>
    /\ UNCHANGED extraVars

CacheNext ==
    \/ ListStart
    \/ ServerAnswers
    \/ ListFinish
    \/ DeleteModel
    \/ ClearModelsCache
    \/ Tick

CacheSpec == CacheInit /\ [][CacheNext]_vars

(***************************************************************************)
(* Model-list cache: properties.                                           *)
(***************************************************************************)
\* the step is a get_available_models call answered from the cache
HitReturns ==
    /\ clast'.op = "list_models"
    /\ clast' # clast
    /\ ~clast'.ret.network

\* the step is a get_available_models call going to the network
StartsFetch == Len(pending') > Len(pending)

\* the step is a get_available_models call returning from the network
FetchReturns == Len(pending') < Len(pending)

\* at the time of the step, a fetch has written the cache, nothing has
\* invalidated it since, and that fetch started less than 300 s ago
WithinWindow ==
    wrote.valid /\ ctime - wrote.start < CacheTimeout

\* C20, as claimed: a call within 300 s of the last successful fetch, with
\* no invalidation in between, returns the cached list without a network
\* call; any other call goes to the network, and the call that went to the
\* network leaves the list it returns in the cache, with a new timestamp.
C20_CachePolicy ==
    [][ /\ HitReturns => (WithinWindow /\ clast'.ret.models = wrote.models)
        /\ StartsFetch => ~WithinWindow
        /\ FetchReturns =>
              /\ models_cache' = Cached(clast'.ret.models)
              /\ last_cache_time' >= clast'.arg
      ]_vars

\* C20, amended: a call less than 300 s after the start of the fetch that
\* last wrote the cache, with no invalidation in between, returns the cached
\* list without a network call and changes nothing; any other call goes to
\* the network; when the daemon answers 200 the call stores the list it
\* returns and the time at which it started; otherwise it returns the empty
\* list and leaves cache and timestamp as they were.
C20_CachePolicyOnSuccess ==
    [][ /\ HitReturns =>
              /\ WithinWindow
              /\ clast'.arg = ctime
              /\ clast'.ret.models = wrote.models
              /\ UNCHANGED <<models_cache, last_cache_time, pending>>
        /\ StartsFetch => ~WithinWindow
        /\ (FetchReturns /\ clast'.ret.upstream = "200") =>
              /\ models_cache' = Cached(clast'.ret.models)
              /\ last_cache_time' = clast'.arg
              /\ clast'.ret.network
        /\ (FetchReturns /\ clast'.ret.upstream # "200") =>
              /\ clast'.ret.models = <<>>
              /\ clast'.ret.network
              /\ UNCHANGED <<models_cache, last_cache_time>>
      ]_vars

\* a call 299 s after the start of the fetch was answered from the cache
C20_Witness ==
    /\ clast.op = "list_models"
    /\ ~clast.ret.network
    /\ clast.ret.models = InstalledModels
    /\ clast.arg - last_cache_time = CacheTimeout - 1
    /\ models_cache = Cached(InstalledModels)

\* C21, as claimed: after a successful delete_model or a clear_models_cache
\* has returned, no get_available_models call is answered from the cache with
\* a list that left the daemon before that invalidation, also when a refresh
\* was suspended on the daemon while the invalidation ran.
C21_NoStaleListAfterInvalidation ==
    (clast.op = "list_models" /\ ~clast.ret.network) => ~clast.ret.stale

(***************************************************************************)
(* ProviderFactory (core/ai_providers/provider_factory.py): the registry   *)
(* of the providers that answered their probe.  The registry is a dict;    *)
(* the model keeps its keys in insertion order.  How a provider class      *)
(* behaves when it is constructed and probed is the environment's choice,  *)
(* made anew at every probe.                                               *)
(***************************************************************************)
ProviderNames == {"ollama", "openai", "anthropic", "google"}

\* ProviderFactory._available_providers, the statically known classes
StaticProviders == <<"ollama">>

\* cls() and provider.is_available(): the constructor raises, the probe
\* raises, or the probe answers (a liveness endpoint that times out makes
\* OllamaProvider.is_available answer false)
ProbeOutcomes == {"true", "false", "probe_raises", "ctor_raises"}

\* what add_custom_provider is handed: a BaseAIProvider subclass or not
ClassKinds == {"provider", "other"}

Provider(name) == [provider |-> name]

Registered(reg) == {reg[i] : i \in 1..Len(reg)}

\* self._providers[name] = provider
RegSet(reg, name) == IF name \in Registered(reg) THEN reg ELSE Append(reg, name)

\* the names whose latest probe did not return true, after one more probe
Lapse(names, name, outcome) ==
    IF outcome = "true" THEN names \ {name} ELSE names \cup {name}

RECURSIVE InitializeProviders(_, _, _)
InitializeProviders(reg, classes, outcome) ==
    IF classes = <<>> THEN reg
    ELSE InitializeProviders(
             IF outcome[Head(classes)] = "true" THEN RegSet(reg, Head(classes)) ELSE reg,
             Tail(classes), outcome)

RECURSIVE LapseAll(_, _, _)
LapseAll(names, classes, outcome) ==
    IF classes = <<>> THEN names
    ELSE LapseAll(Lapse(names, Head(classes), outcome[Head(classes)]),
                  Tail(classes), outcome)

StaticOutcomes == [Registered(StaticProviders) -> ProbeOutcomes]

TaskTypes == {"math", "coding", "creative", "translation", "analysis", "general", "other"}

task_preferences ==
    [math        |-> <<"ollama", "openai", "google">>,
     coding      |-> <<"anthropic", "ollama", "openai">>,
     creative    |-> <<"anthropic", "openai", "ollama">>,
     translation |-> <<"google", "openai", "ollama">>,
     analysis    |-> <<"anthropic", "openai", "ollama">>,
     general     |-> <<"ollama", "openai", "anthropic">>]

\* faulty variant of PreferredProviders: an unknown task has no preferences
PreferredProviders_NoDefault(task_type) ==
    IF task_type \in DOMAIN task_preferences
    THEN task_preferences[task_type]
    ELSE <<>>

\* task_preferences.get(task_type, task_preferences['general'])
PreferredProviders(task_type) ==
    IF task_type \in DOMAIN task_preferences
    THEN task_preferences[task_type]
    ELSE task_preferences["general"]

\* the loop over the preferred providers, returning at the first registered
RECURSIVE FirstPreferred(_, _)
FirstPreferred(preferred, reg) ==
    IF preferred = <<>> THEN None
    ELSE IF Head(preferred) \in Registered(reg) THEN Provider(Head(preferred))
    ELSE FirstPreferred(Tail(preferred), reg)

BestProvider(reg, task_type) ==
    LET found == FirstPreferred(PreferredProviders(task_type), reg)
    IN  IF found # None THEN found
        ELSE IF reg # <<>> THEN Provider(reg[1])
        ELSE None

\* ProviderFactory.__init__
RegistryInit ==
    /\ \E outcome \in StaticOutcomes :
        /\ providers = InitializeProviders(<<>>, StaticProviders, outcome)
        /\ lapsed = LapseAll({}, StaticProviders, outcome)
        /\ rlast = Call("init", outcome, None, FALSE)
    /\ ConfigIdle
    /\ StreamIdle
    /\ PromptIdle
    /\ CacheIdle
    /\ AppIdle
    /\ SharedIdle

ReloadProviders ==
    /\ \E outcome \in StaticOutcomes :
        /\ providers' = InitializeProviders(<<>>, StaticProviders, outcome)
        /\ lapsed' = LapseAll(lapsed, StaticProviders, outcome)
        /\ rlast' = Call("reload_providers", outcome, None, FALSE)
    /\ UNCHANGED <<configVars, streamVars, promptVars, cacheVars, appVars, sharedVars>>

AddCustomProvider ==
    /\ \E name \in ProviderNames, kind \in ClassKinds, outcome \in ProbeOutcomes :
        IF kind = "other"
        THEN /\ rlast' = Call("add_custom_provider", [name |-> name, kind |-> kind],
                              [error |-> "ValueError"], TRUE)
             /\ UNCHANGED <<providers, lapsed>>
        ELSE /\ providers' = IF outcome = "true" THEN RegSet(providers, name) ELSE providers
             /\ lapsed' = Lapse(lapsed, name, outcome)
             /\ rlast' = Call("add_custom_provider",
                              [name |-> name, kind |-> kind, outcome |-> outcome],
                              IF outcome \in {"true", "false"} THEN None
                              ELSE [error |-> "Exception"],
                              outcome \notin {"true", "false"})
    /\ UNCHANGED <<configVars, streamVars, promptVars, cacheVars, appVars, sharedVars>>

GetProvider ==
    /\ \E name \in ProviderNames :
        rlast' = IF name \in Registered(providers)
                 THEN Call("get_provider", name, Provider(name), FALSE)
                 ELSE Call("get_provider", name,
                           [error |-> "ValueError", available |-> providers], TRUE)
    /\ UNCHANGED <<providers, lapsed>>
    /\ UNCHANGED <<configVars, streamVars, promptVars, cacheVars, appVars, sharedVars>>

GetAvailableProviders ==
    /\ rlast' = Call("get_available_providers", None, [names |-> providers], FALSE)
    /\ UNCHANGED <<providers, lapsed>>
    /\ UNCHANGED <<configVars, streamVars, promptVars, cacheVars, appVars, sharedVars>>

GetBestProviderForTask ==
    /\ \E task_type \in TaskTypes :
        rlast' = Call("get_best_provider_for_task", task_type,
                      BestProvider(providers, task_type), FALSE)
    /\ UNCHANGED <<providers, lapsed>>
    /\ UNCHANGED <<configVars, streamVars, promptVars, cacheVars, appVars, sharedVars>>

RegistryNext ==
    \/ ReloadProviders
    \/ AddCustomProvider
    \/ GetProvider
    \/ GetAvailableProviders
    \/ GetBestProviderForTask

RegistrySpec == RegistryInit /\ [][RegistryNext]_vars

\* C22, as claimed: after construction and after any sequence of reload and
\* add_custom_provider calls the registry holds a name only if the latest
\* probe under that name returned true (a constructor or probe that raised,
\* or a probe that answered false, leaves the name absent), and neither
\* construction nor reload raises.
C22_RegisteredOnlyIfAvailable ==
    /\ Registered(providers) \cap lapsed = {}
    /\ rlast.op \in {"init", "reload_providers"} => ~rlast.raised

\* the order the claim gives a task: its own, the general one when unknown
ClaimedOrder(task_type) ==
    IF task_type \in {"math", "coding", "creative", "translation", "analysis", "general"}
    THEN task_preferences[task_type]
    ELSE task_preferences.general

ClaimedBest(reg, task_type) ==
    LET order == ClaimedOrder(task_type)
        hits == {i \in 1..Len(order) : \E k \in 1..Len(reg) : reg[k] = order[i]}
    IN  IF hits # {} THEN Provider(order[CHOOSE i \in hits : \A j \in hits : i <= j])
        ELSE IF Len(reg) > 0 THEN Provider(reg[1])
        ELSE None

\* C23: get_best_provider_for_task never raises, for a known or an unknown
\* task type and any registry content; it returns the first registered
\* provider in the task's preference order (the general order for an unknown
\* task), else the first registered provider of any kind, else None when the
\* registry is empty.
C23_BestForTask ==
    rlast.op = "get_best_provider_for_task" =>
        /\ ~rlast.raised
        /\ rlast.ret = ClaimedBest(providers, rlast.arg)

\* an unknown task is answered from the general order although another
\* provider was registered first
C23_Witness ==
    /\ rlast.op = "get_best_provider_for_task"
    /\ rlast.arg = "other"
    /\ Len(providers) >= 2
    /\ rlast.ret # None
    /\ rlast.ret # Provider(providers[1])

(***************************************************************************)
(* BaseAIApp (core/base_app.py): the HTTP routes over one ConfigManager,   *)
(* one PromptsManager and one ProviderFactory.  alast holds the last       *)
(* request and the status and body of its answer; last, plast and rlast    *)
(* keep recording the calls made on the three managers directly.           *)
(***************************************************************************)
MaxAppClock == 4      \* clock readings per behaviour of the application

\* a default_config in the shape of apps/calculator (CALCULATOR_CONFIG)
AppConfig ==
    [default_provider |-> Val("ollama"), default_model |-> Val("llama3.2"),
     temperature |-> Val("0.1"), system_prompt |-> JStr(<<"s">>)]

\* default_config or {}
AppDefaults == {AppConfig, EmptyDoc}

\* the config file an earlier run of the application left
StoredAppDoc ==
    [temperature |-> Val("stored"), _hidden |-> Val("stored"), _metadata |-> Metadata(0)]

AppFiles == {AbsentFile, JsonFile(StoredAppDoc)}

\* POST /prompts: name, prompt and an optional description
AppSaveRequests ==
    { SaveRequest(NameA, BodyHi, JNull, "general", {}),
      SaveRequest(NameB, BodyX, JStr(<<"d">>), "general", {}) }

ChatRequest(provider, model, system_prompt, temperature, stream) ==
    [provider |-> provider, model |-> model, system_prompt |-> system_prompt,
     temperature |-> temperature, stream |-> stream]

\* POST /chat bodies: nothing but the message; every parameter given; a
\* temperature of 0; an empty system prompt; a provider that is not there
ChatRequests ==
    { ChatRequest(None, None, None, None, TRUE),
      ChatRequest(Val("ollama"), Val("m"), JStr(<<"r">>), Val("0.9"), FALSE),
      ChatRequest(None, None, None, Val("0.0"), FALSE),
      ChatRequest(None, Val("m"), JStr(<<>>), Val("0.9"), TRUE),
      ChatRequest(Val("openai"), None, None, None, TRUE),
      ChatRequest(Val("openai"), None, None, None, FALSE) }

\* the values Python's `or` passes over: None, 0.0 and the empty string
Falsy(v) == v \in {None, Val("0.0"), Val(""), JStr(<<>>)}

\* a or b
Or(a, b) == IF Falsy(a) THEN b ELSE a

\* the parameters universal_chat resolves from the request and config.get()
ChatParams(request, c) ==
    [provider |-> Or(request.provider, GetKey(GetAll(c), "default_provider", Val("ollama"))),
     model |-> Or(request.model, GetKey(GetAll(c), "default_model", None)),
     system_prompt |-> Or(request.system_prompt, GetKey(GetAll(c), "system_prompt", None)),
     temperature |-> Or(request.temperature, GetKey(GetAll(c), "temperature", Val("0.7"))),
     stream |-> request.stream]

\* faulty variant of AppliedConfig: the document is replaced by the prompt
AppliedConfig_OnlyPrompt(c, text) ==
    [k \in {"system_prompt"} |-> JStr(text)]

\* use_prompt: current_config = config.get(); current_config["system_prompt"]
\* = text; config.update(current_config)
AppliedConfig(c, text) ==
    UpdatedConfig(c, Merge(GetAll(c), [k \in {"system_prompt"} |-> JStr(text)]))

\* BaseAIApp.__init__
AppInit ==
    /\ \E d \in AppDefaults, f \in AppFiles :
        /\ defaults = d
        /\ config = LoadConfig(f, d, 0).config
        /\ file = LoadConfig(f, d, 0).file
        /\ now = LoadConfig(f, d, 0).now
    /\ backup_file = AbsentFile
    /\ cpc = "live"
    /\ last = Call("init", None, None, FALSE)
    /\ prompts = <<>>
    /\ prompts_file = <<>>
    /\ export_file = [exists |-> FALSE, prompts |-> <<>>]
    /\ next_id = 0
    /\ plast = Call("init", None, None, FALSE)
    /\ \E outcome \in StaticOutcomes :
        /\ providers = InitializeProviders(<<>>, StaticProviders, outcome)
        /\ lapsed = LapseAll({}, StaticProviders, outcome)
    /\ rlast = Call("init", None, None, FALSE)
    /\ alast = Response("init", None, 0, None)
    /\ StreamIdle
    /\ CacheIdle
    /\ SharedIdle

\* POST /prompts
AppSavePrompt ==
    /\ next_id < MaxPrompts
    /\ now < MaxAppClock
    /\ \E req \in AppSaveRequests :
        LET id == NewId(next_id)
            rec == NewRecord(id, req, now + 1) IN
        /\ prompts' = DictSet(prompts, id, rec)
        /\ alast' = Response("save_prompt", req, 200, [prompt |-> rec])
    /\ prompts_file' = prompts'
    /\ next_id' = next_id + 1
    /\ now' = now + 1
    /\ UNCHANGED <<defaults, config, file, backup_file, cpc, last, export_file, plast>>
    /\ UNCHANGED <<streamVars, cacheVars, registryVars, sharedVars>>

\* POST /prompts/use
UsePrompt ==
    /\ \E id \in CallIds(prompts) :
        IF ~HasId(prompts, id)
        THEN /\ alast' = Response("use_prompt", [prompt_id |-> id], 400,
                                  [detail |-> "404: Prompt not found"])
             /\ UNCHANGED <<config, file, prompts, prompts_file, now>>
        ELSE LET rec == prompts[IndexOf(prompts, id)]
                 c == AppliedConfig(config, rec.prompt)
                 used == MarkedUsed(rec, now + 2) IN
             /\ now + 2 <= MaxAppClock
             /\ config' = c
             /\ file' = SaveConfig(c, now + 1)
             /\ prompts' = [prompts EXCEPT ![IndexOf(prompts, id)] = used]
             /\ prompts_file' = prompts'
             /\ now' = now + 2
             /\ alast' = Response("use_prompt", [prompt_id |-> id], 200,
                                  [name |-> rec.name, prompt |-> used])
    /\ UNCHANGED <<defaults, backup_file, cpc, last, export_file, next_id, plast>>
    /\ UNCHANGED <<streamVars, cacheVars, registryVars, sharedVars>>

\* DELETE /prompts/{prompt_id}
AppDeletePrompt ==
    /\ \E id \in CallIds(prompts) :
        IF ~HasId(prompts, id)
        THEN /\ alast' = Response("delete_prompt", [prompt_id |-> id], 404,
                                  [detail |-> "KeyError"])
             /\ UNCHANGED <<prompts, prompts_file>>
        ELSE /\ prompts' = DictPop(prompts, id)
             /\ prompts_file' = prompts'
             /\ alast' = Response("delete_prompt", [prompt_id |-> id], 200,
                                  [name |-> prompts[IndexOf(prompts, id)].name])
    /\ UNCHANGED <<export_file, next_id, now, plast>>
    /\ UNCHANGED <<defaults, config, file, backup_file, cpc, last>>
    /\ UNCHANGED <<streamVars, cacheVars, registryVars, sharedVars>>

\* self.prompts.update(prompt_id, **updates), called by an application's own
\* routes; it answers no base route and leaves alast alone
AppUpdatePrompt ==
    /\ now < MaxAppClock
    /\ \E id \in CallIds(prompts), u \in UpdatePayloads :
        /\ HasId(prompts, id)
        /\ prompts' = UpdatedLibrary(prompts, id, u, now + 1)
        /\ plast' = Call("update", [id |-> id, updates |-> u],
                         prompts'[IndexOf(prompts, id)], FALSE)
    /\ prompts_file' = prompts'
    /\ now' = now + 1
    /\ UNCHANGED <<export_file, next_id, alast>>
    /\ UNCHANGED <<defaults, config, file, backup_file, cpc, last>>
    /\ UNCHANGED <<streamVars, cacheVars, registryVars, sharedVars>>

\* GET /providers/{provider_name}/models
GetProviderModels ==
    /\ \E name \in ProviderNames, models \in {<<>>, InstalledModels} :
        alast' = IF name \in Registered(providers)
                 THEN Response("get_provider_models", [provider |-> Val(name)], 200,
                               [provider |-> name, models |-> models])
                 ELSE Response("get_provider_models", [provider |-> Val(name)], 400,
                               [detail |-> "ValueError"])
    /\ UNCHANGED registryVars
    /\ UNCHANGED <<configVars, streamVars, promptVars, cacheVars, sharedVars>>

\* POST /chat
UniversalChat ==
    /\ \E request \in ChatRequests, provider_fails \in BOOLEAN :
        LET chat_params == ChatParams(request, config)
            name == chat_params.provider.json IN
        alast' =
            IF name \notin Registered(providers)
            THEN Response("chat", request, 500, [detail |-> "ValueError"])
            ELSE IF request.stream
            THEN Response("chat", request, 200,
                          [call |-> "chat_stream", handed |-> chat_params])
            ELSE IF provider_fails
            THEN Response("chat", request, 500, [detail |-> "Exception"])
            ELSE Response("chat", request, 200,
                          [call |-> "chat", handed |-> chat_params])
    /\ UNCHANGED registryVars
    /\ UNCHANGED <<configVars, streamVars, promptVars, cacheVars, sharedVars>>

AppNext ==
    \/ AppSavePrompt
    \/ UsePrompt
    \/ AppDeletePrompt
    \/ AppUpdatePrompt
    \/ GetProviderModels
    \/ UniversalChat

AppSpec == AppInit /\ [][AppNext]_vars

\* C24, as claimed: POST /prompts/use with a prompt_id that is not in the
\* library is answered with HTTP 404 and changes neither the configuration
\* nor any prompt's use_count.
C24_UnknownPromptIs404 ==
    [][ (alast'.route = "use_prompt" /\ alast' # alast /\ ~HasId(prompts, alast'.arg.prompt_id)) =>
            /\ alast'.status = 404
            /\ config' = config
            /\ prompts' = prompts ]_vars

\* the provider a request names, as a path parameter or as the provider field
NamedProvider(r) == r.arg.provider

\* C25, as claimed: a request that names a provider not in the registry is
\* answered with HTTP 404, for GET /providers/{name}/models and for
\* POST /chat with provider=name, streaming or not.
C25_UnknownProviderIs404 ==
    (/\ alast.route \in {"get_provider_models", "chat"}
     /\ NamedProvider(alast) # None
     /\ NamedProvider(alast).json \notin Registered(providers))
        => alast.status = 404

\* C26: POST /prompts/use with the id of an existing prompt sets the
\* configuration's system_prompt to that prompt's text, raises that prompt's
\* use_count by exactly 1 and leaves every other configuration key and every
\* other prompt unchanged; the text is copied: a later update or delete of
\* the prompt leaves the configuration as it is.
C26_UsePromptApplies ==
    [][ /\ (alast'.route = "use_prompt" /\ alast' # alast /\ HasId(prompts, alast'.arg.prompt_id)) =>
            LET id == alast'.arg.prompt_id IN
            /\ alast'.status = 200
            /\ DOMAIN config' = DOMAIN config \cup {"system_prompt"}
            /\ config'["system_prompt"] = JStr(RecordOf(prompts, id).prompt)
            /\ file'.doc["system_prompt"] = JStr(RecordOf(prompts, id).prompt)
            /\ \A k \in DOMAIN config \ {"system_prompt"} : config'[k] = config[k]
            /\ Len(prompts') = Len(prompts)
            /\ RecordOf(prompts', id).use_count = RecordOf(prompts, id).use_count + 1
            /\ RecordOf(prompts', id).prompt = RecordOf(prompts, id).prompt
            /\ \A i \in 1..Len(prompts) : prompts[i].id # id => prompts'[i] = prompts[i]
        /\ (\/ plast'.op = "update" /\ plast' # plast
            \/ alast'.route = "delete_prompt" /\ alast' # alast) =>
            /\ config' = config
            /\ file' = file ]_vars

\* a freshly saved prompt was applied (use_count 1) and then updated to
\* another text, and the configuration still holds the applied text next to
\* its other keys
C26_Witness ==
    /\ alast.route = "use_prompt"
    /\ alast.status = 200
    /\ alast.body.prompt.use_count = 1
    /\ plast.op = "update"
    /\ plast.arg.id = alast.arg.prompt_id
    /\ config["system_prompt"] = JStr(alast.body.prompt.prompt)
    /\ RecordOf(prompts, alast.arg.prompt_id).prompt # alast.body.prompt.prompt
    /\ "temperature" \in DOMAIN config

\* C30, as claimed: POST /chat hands the provider the request's value of
\* provider, model, system_prompt and temperature whenever the request
\* carries one (temperature 0 included), and the configuration's value only
\* when the request carries none.
C30_RequestFirst ==
    (alast.route = "chat" /\ alast.status = 200) =>
        \A f \in {"provider", "model", "system_prompt", "temperature"} :
            alast.arg[f] # None => alast.body.handed[f] = alast.arg[f]

(***************************************************************************)
(* ConfigManager.validate_config, on the documents a configuration file    *)
(* can hold for the keys it looks at.                                      *)
(***************************************************************************)
Absent == [absent |-> TRUE]

required_keys == <<"default_provider", "default_model", "system_prompt">>

\* the keys of type_checks, in the order of the dict
type_checks == <<"temperature", "max_tokens", "stream">>

ValidatedKeys ==
    {"default_provider", "default_model", "system_prompt", "temperature", "max_tokens"}

\* what a file holds under each key: nothing, null, an empty string, a
\* value of the expected type, a value of another type
ValueChoices(k) ==
    CASE k = "default_provider" -> {Absent, Val(""), Val("ollama")}
      [] k = "default_model"    -> {Absent, None, Val("llama3.2")}
      [] k = "system_prompt"    -> {Absent, JStr(<<>>), JStr(<<"s">>)}
      [] k = "temperature"      -> {Absent, None, Val("0.1"), Val("hot")}
      [] OTHER                  -> {Absent, Val("many")}

AllChoices == UNION {ValueChoices(k) : k \in ValidatedKeys}

ValidatedDocs ==
    {[k \in {j \in ValidatedKeys : f[j] # Absent} |-> f[k]] :
        f \in {g \in [ValidatedKeys -> AllChoices] :
                  \A k \in ValidatedKeys : g[k] \in ValueChoices(k)}}

\* type(value).__name__ for the values of the model
TypeName(v) ==
    IF v = None THEN "NoneType"
    ELSE IF v \in {Val("0.0"), Val("0.1"), Val("0.5"), Val("0.7"), Val("0.9")} THEN "float"
    ELSE "str"

\* isinstance(value, expected_type) for the three entries of type_checks
IsInstance(v, k) ==
    CASE k = "temperature" -> TypeName(v) \in {"int", "float"}
      [] k = "max_tokens"  -> TypeName(v) = "int"
      [] OTHER             -> TypeName(v) = "bool"

\* the first loop: if not self.get(key)
Issues(c) == SelectSeq(required_keys, LAMBDA k : Falsy(GetKey(c, k, None)))

\* the second loop: the keys whose value is not None and not of the type
Mistyped(c) ==
    SelectSeq(type_checks,
              LAMBDA k : GetKey(c, k, None) # None /\ ~IsInstance(GetKey(c, k, None), k))

\* expected_type.__name__ on the tuple (int, float) raises AttributeError
WarningRaises(c) ==
    \E i \in 1..Len(Mistyped(c)) : Mistyped(c)[i] = "temperature"

ValidateOutcome(c) ==
    IF WarningRaises(c)
    THEN Call("validate_config", None, [error |-> "AttributeError"], TRUE)
    ELSE Call("validate_config", None,
              [valid |-> Len(Issues(c)) = 0, issues |-> Issues(c),
               warnings |-> Mistyped(c)], FALSE)

\* a ConfigManager constructed without defaults on a file an earlier run wrote
ValidateInit ==
    /\ \E d \in ValidatedDocs :
        /\ file = SaveConfig(d, 0)
        /\ config = LoadConfig(SaveConfig(d, 0), EmptyDoc, 0).config
    /\ defaults = EmptyDoc
    /\ backup_file = AbsentFile
    /\ now = 0
    /\ cpc = "live"
    /\ last = Call("init", None, None, FALSE)
    /\ StreamIdle
    /\ PromptIdle
    /\ CacheIdle
    /\ ExtraIdle

\* ConfigManager.validate_config
Validate ==
    /\ cpc = "live"
    /\ last' = ValidateOutcome(config)
    /\ UNCHANGED <<defaults, config, file, backup_file, now, cpc>>
    /\ UNCHANGED <<streamVars, promptVars, cacheVars, extraVars>>

ValidateNext ==
    \/ Validate

ValidateSpec == ValidateInit /\ [][ValidateNext]_vars

\* C27, as claimed: validate_config never changes the live document or the
\* file, and it reports one issue for exactly those keys of
\* {default_provider, default_model, system_prompt} that are not present in
\* the document, with valid = true iff no issue is reported.
C27_ValidateReportsMissing ==
    [][ (last'.op = "validate_config" /\ last' # last) =>
            /\ config' = config
            /\ file' = file
            /\ ~last'.raised
            /\ Len(last'.ret.issues) =
                   Cardinality({k \in {"default_provider", "default_model", "system_prompt"} :
                                    k \notin DOMAIN config})
            /\ \A k \in {"default_provider", "default_model", "system_prompt"} :
                   (k \notin DOMAIN config) <=>
                       (\E i \in 1..Len(last'.ret.issues) : last'.ret.issues[i] = k)
            /\ last'.ret.valid = (Len(last'.ret.issues) = 0) ]_vars

(***************************************************************************)
(* Two ConfigManager instances, in two processes, on one config file.      *)
(* _save_config opens the file for writing, which empties it, and writes   *)
(* the document from the start of the file when the handle is flushed and  *)
(* closed; nothing orders the two processes, so the open and the write of  *)
(* one can fall on either side of the open and the write of the other.     *)
(* The text of a document is measured in entries.                          *)
(***************************************************************************)
MaxSharedClock == 3   \* saves begun on the shared file per behaviour

Instances == {1, 2}

SharedDefaults == [k \in {"temperature"} |-> Val("0.1")]

\* update payloads: one that changes a value, one that adds two entries
SharedPayloads ==
    { [k \in {"temperature"} |-> Val("0.5")],
      [k \in {"default_model", "system_prompt"} |-> Val("stored")] }

\* length of json.dump's text of a document
Size(d) == Cardinality(DOMAIN d)

Content(state, d, size) == [state |-> state, doc |-> d, size |-> size]

\* open(config_file, 'w')
Truncated == Content("empty", EmptyDoc, 0)

\* the handle's write at offset 0 and close: text of the file beyond the
\* written document stays
Overwrite(f, d) ==
    IF f.size > Size(d)
    THEN Content("mixed", d, f.size)
    ELSE Content("json", d, Size(d))

\* a manager: its live document, where it is in _save_config, and the
\* document of its latest save
Manager(c, pc, buf) == [config |-> c, pc |-> pc, buf |-> buf]

\* both processes have constructed their manager on the file an earlier run
\* wrote
SharedInit ==
    /\ shared_file = Content("json", SaveConfig(SharedDefaults, 0).doc,
                             Size(SaveConfig(SharedDefaults, 0).doc))
    /\ managers = [i \in Instances |->
                      Manager(LoadConfig(SaveConfig(SharedDefaults, 0), SharedDefaults, 0).config,
                              "idle", EmptyDoc)]
    /\ writer = 0
    /\ now = 0
    /\ ConfigIdleButClock
    /\ StreamIdle
    /\ PromptIdle
    /\ CacheIdle
    /\ RegistryIdle
    /\ AppIdle

\* update, up to and including open(config_file, 'w') of _save_config
SharedUpdate ==
    /\ now < MaxSharedClock
    /\ \E i \in Instances, p \in SharedPayloads :
        LET c == UpdatedConfig(managers[i].config, p) IN
        /\ managers[i].pc = "idle"
        /\ managers' = [managers EXCEPT ![i] = Manager(c, "opened", SaveConfig(c, now + 1).doc)]
    /\ shared_file' = Truncated
    /\ now' = now + 1
    /\ UNCHANGED writer
    /\ UNCHANGED <<defaults, config, file, backup_file, cpc, last>>
    /\ UNCHANGED <<streamVars, promptVars, cacheVars, registryVars, appVars>>

\* the rest of _save_config: json.dump and the close of the handle
SharedWrite ==
    /\ \E i \in Instances :
        /\ managers[i].pc = "opened"
        /\ shared_file' = Overwrite(shared_file, managers[i].buf)
        /\ managers' = [managers EXCEPT ![i].pc = "idle"]
        /\ writer' = i
    /\ UNCHANGED <<defaults, config, file, backup_file, now, cpc, last>>
    /\ UNCHANGED <<streamVars, promptVars, cacheVars, registryVars, appVars>>

\* a process restarts: __init__ and _load_config on the shared file; a file
\* that does not parse makes it fall back to the defaults and save them
SharedRestart ==
    /\ \E i \in Instances :
        /\ managers[i].pc = "idle"
        /\ IF shared_file.state = "json"
           THEN /\ managers' = [managers EXCEPT ![i] =
                                    Manager(Merge(SharedDefaults, shared_file.doc),
                                            "idle", managers[i].buf)]
                /\ UNCHANGED <<shared_file, now>>
           ELSE /\ now < MaxSharedClock
                /\ managers' = [managers EXCEPT ![i] =
                                    Manager(SharedDefaults, "opened",
                                            SaveConfig(SharedDefaults, now + 1).doc)]
                /\ shared_file' = Truncated
                /\ now' = now + 1
    /\ UNCHANGED writer
    /\ UNCHANGED <<defaults, config, file, backup_file, cpc, last>>
    /\ UNCHANGED <<streamVars, promptVars, cacheVars, registryVars, appVars>>

SharedNext ==
    \/ SharedUpdate
    \/ SharedWrite
    \/ SharedRestart

SharedSpec == SharedInit /\ [][SharedNext]_vars

\* C28, as claimed: with two managers sharing one file and no locking, once
\* their mutations have returned the file is the complete document of the
\* instance that rewrote it last, never a mix of both documents.
C28_LastRewriteWins ==
    (writer # 0 /\ \A i \in Instances : managers[i].pc = "idle") =>
        /\ shared_file.state = "json"
        /\ shared_file.doc = managers[writer].buf

\* C29: every import_prompts call that returns satisfies
\* total = imported + skipped + number of collected errors, and the library
\* holds at most `imported` more records than before the call.
C29_ImportAccounting ==
    [][ (plast'.op = "import" /\ ~plast'.raised) =>
            /\ plast'.ret.total =
                   plast'.ret.imported + plast'.ret.skipped + Len(plast'.ret.errors)
            /\ plast'.ret.total = Len(plast'.arg.items)
            /\ Len(prompts') - Len(prompts) <= plast'.ret.imported ]_vars

\* an import returned after one record failed, one was imported as a new
\* record and one was skipped
C29_Witness ==
    /\ plast.op = "import"
    /\ ~plast.raised
    /\ Len(plast.ret.errors) = 1
    /\ plast.ret.imported = 1
    /\ plast.ret.skipped = 1
    /\ \E i \in 1..Len(prompts) : prompts[i].name = NameN

====
